---- MODULE Spec2Model ----
(***************************************************************************)
(* A model of preprocess16S: the primer scanner (find_primer), the         *)
(* cross-talk classifier (find_primer_organizer driven by                  *)
(* progress_counter) and the read merger (read_merging_16S.merge_reads).   *)
(*                                                                         *)
(* Python strings are sequences of one-character strings, 1-based here and *)
(* 0-based in the source.  RECOGN_PERCENTAGE is kept in percent, so that   *)
(* score / span >= 0.52 is score * 100 >= 52 * span.                       *)
(***************************************************************************)
EXTENDS Integers, Sequences, FiniteSets

VARIABLES
    primers,        \* the list of primer sequences (preprocess16S.py:807)
    cutoff,         \* the -c flag (preprocess16S.py:135)
    threshold,      \* the recognition threshold in effect, in percent
    fastq_rec,      \* the record find_primer is applied to
    scan_in,        \* that record as it was before the latest scan
    scan_out,       \* what the latest scan reported
    n_scans,        \* scans of fastq_rec so far
    m_r,            \* a read nucleotide given to the match predicate
    m_p,            \* a primer symbol given to the match predicate
    m_res,          \* the predicate's answer
    rev_primers,    \* reversed(primers): how many primers the iterator has left
    stats,          \* primer_stats: the match and trash counters
    result_files,   \* the records written to mR1, mR2, trR1 and trR2
    reads_processed,\* progress_counter's count of pairs done
    processed,      \* the pairs read so far, each with where it went
    crashed,        \* the exception that ended the run, or "none"
    mg_pc,          \* where merge_reads stands: idle, or waiting for a tool
    mg_recs,        \* the read pair merge_reads was called with
    mg_local,       \* merge_reads' locals kept over a call of a tool
    mg_ret,         \* what the latest call of merge_reads returned (-1: nothing yet)
    mg_exc,         \* the exception that escaped merge_reads, or "none"
    mg_calls,       \* the external tools run by the latest call, in order
    curr_merged_seq,    \* read_merging_16S.curr_merged_seq
    curr_merged_qual,   \* read_merging_16S.curr_merged_qual
    n_merges,       \* calls of merge_reads so far
    mg_ref,         \* merge_reads' reference coordinates and the return taken
    mg_runs,        \* how each tool run of the latest call ended, in order
    blast_rep,      \* the file blastn_report.txt: <<>> while it does not exist
    sbjct,          \* the sequence in subject.fasta: <<>> while it does not exist
    ov_in,          \* the arguments _merge_by_overlap is called with
    ov_out,         \* what that call returned, or that it was not made yet
    q_pc,           \* where the quality computation stands
    q_reads,        \* the read pairs of the files given to the plotting task
    n_thr,          \* the number of processes (-t)
    sq_Y,           \* Y as progress_counter(add_data_for_qual_plot) fills it
    sq_processed,   \* reads_processed of that run of progress_counter
    sq_exc,         \* the exception that ended that run, or "none"
    pk_i,           \* fastq_read_packets' i: packets completed
    pk_packet,      \* fastq_read_packets' packet under construction
    np_round,       \* how the numpy in use rounds a float64 to two decimals
    how_to_open,    \* the script's global how_to_open (preprocess16S.py:814)
    pk_pos,         \* pairs fastq_read_packets has read from the files
    pk_yielded,     \* the packets fastq_read_packets has yielded, in order
    par_Y,          \* parallel_qual's list Y: one result per packet
    par_sum,        \* what parallel_qual returns: reduce(arr_sum, Y)
    par_exc,        \* the exception starmap raised, or "none"
    w_size,         \* per process: the length of its packet
    w_done,         \* per process: pairs of the packet handled so far
    w_i,            \* per process: single_qual_calcer's i
    w_pc,           \* per process: where it stands in single_qual_calcer
    w_tmp,          \* per process: counter.value as it read it for +=
    counter,        \* the shared counter.value
    count_lock,     \* the process holding count_lock, or 0
    print_lock,     \* the process holding print_lock, or 0
    w_incs,         \* per process: what it has added to the counter so far
    reads_at_all    \* the number of read pairs parallel_qual counted

cfgVars == <<primers, cutoff, threshold>>

scanVars == <<fastq_rec, scan_in, scan_out, n_scans>>

matchVars == <<m_r, m_p, m_res>>

clsVars == <<rev_primers, stats, result_files, reads_processed, processed,
             crashed>>

mergeVars == <<mg_pc, mg_recs, mg_local, mg_ret, mg_exc, mg_calls,
               curr_merged_seq, curr_merged_qual, n_merges, mg_ref, mg_runs,
               blast_rep, sbjct>>

ovVars == <<ov_in, ov_out>>

qualVars == <<q_pc, q_reads, n_thr, np_round, how_to_open, sq_Y, sq_processed, sq_exc,
              pk_i, pk_packet, pk_pos, pk_yielded, par_Y, par_sum, par_exc>>

lockVars == <<w_size, w_done, w_i, w_pc, w_tmp, counter, count_lock,
              print_lock, w_incs, reads_at_all>>

vars == <<cfgVars, scanVars, matchVars, clsVars, mergeVars, ovVars, qualVars,
          lockVars>>

-----------------------------------------------------------------------------
(* Bounds of the model *)

\* reads of every length up to MaxReadLen over {A,C,G,T,N} are scanned
MaxReadLen == 3

\* how often one record is scanned again
MaxScans == 2

\* read pairs in the input files
MaxPairs == 3

\* calls of merge_reads
MaxMerges == 2

\* length of the constant region read from the file named by constV3V4_path
constV3V4_len == 20

-----------------------------------------------------------------------------
(* Data of preprocess16S.py *)

MAX_SHIFT == 4

RECOGN_PERCENTAGE == 52

ReadNucl == {"A", "G", "C", "T", "N"}

PrimerSymbols ==
    {"A", "C", "G", "T", "R", "Y", "S", "W", "K", "M", "B", "D", "H", "V", "N"}

MATCH_DICT_dropW ==
    [r \in ReadNucl |->
        CASE r = "A" -> {"A", "N", "R", "M", "D", "H", "V"}
          [] r = "G" -> {"G", "N", "R", "S", "K", "B", "D", "V"}
          [] r = "C" -> {"C", "N", "Y", "S", "M", "B", "H", "V"}
          [] r = "T" -> {"T", "N", "Y", "W", "K", "B", "D", "H"}
          [] r = "N" -> {}]

MATCH_DICT ==
    [r \in ReadNucl |->
        CASE r = "A" -> {"A", "N", "R", "W", "M", "D", "H", "V"}
          [] r = "G" -> {"G", "N", "R", "S", "K", "B", "D", "V"}
          [] r = "C" -> {"C", "N", "Y", "S", "M", "B", "H", "V"}
          [] r = "T" -> {"T", "N", "Y", "W", "K", "B", "D", "H"}
          [] r = "N" -> {}]

\* primer symbol p in MATCH_DICT[read nucleotide r]
symbol_in_match_dict(p, r) == p \in MATCH_DICT[r]

\* s[n:] for n >= 0
SliceFrom(s, n) == SubSeq(s, n + 1, Len(s))

-----------------------------------------------------------------------------
(* find_primer *)

\* variant of reaches_threshold with a strict comparison (a score equal to the
\* threshold is refused); the prefix property must tell the two apart
reaches_threshold_strict(score, span) ==
    IF span > 0 THEN score * 100 > threshold * span
                ELSE score * 100 < threshold * span

\* score / span >= RECOGN_PERCENTAGE, for span # 0 (a negative span divides a
\* zero score and turns the comparison round)
reaches_threshold(score, span) ==
    IF span > 0 THEN score * 100 >= threshold * span
                ELSE score * 100 <= threshold * span

\* the first inner loop: primer shifted over the read
score_1(primer, read, shift) ==
    Cardinality({pos \in 0 .. (Len(primer) - shift - 1) :
                    symbol_in_match_dict(primer[pos + shift + 1], read[pos + 1])})

\* the second inner loop: read shifted over the primer
score_2(primer, read, shift) ==
    Cardinality({pos \in 0 .. (Len(primer) - shift - 1) :
                    symbol_in_match_dict(primer[pos + 1], read[pos + shift + 1])})

\* one trial of the first direction: the loop, then the division and the test
trial_1(primer, read, shift) ==
    LET span == Len(primer) - shift
    IN  IF span > Len(read)
          THEN [status |-> "IndexError", compared |-> Len(read)]
        ELSE IF span = 0
          THEN [status |-> "ZeroDivisionError", compared |-> 0]
        ELSE IF reaches_threshold(score_1(primer, read, shift), span)
          THEN [status |-> "hit", compared |-> IF span > 0 THEN span ELSE 0]
        ELSE [status |-> "miss", compared |-> IF span > 0 THEN span ELSE 0]

\* one trial of the second direction, shift being already incremented
trial_2(primer, read, shift) ==
    LET span == Len(primer) - shift
    IN  IF span > 0 /\ Len(primer) > Len(read)
          THEN [status |-> "IndexError",
                compared |-> IF Len(read) > shift THEN Len(read) - shift ELSE 0]
        ELSE IF span = 0
          THEN [status |-> "ZeroDivisionError", compared |-> 0]
        ELSE IF reaches_threshold(score_2(primer, read, shift), span)
          THEN [status |-> "hit", compared |-> IF span > 0 THEN span ELSE 0]
        ELSE [status |-> "miss", compared |-> IF span > 0 THEN span ELSE 0]

\* shift += 1 between the two trials of a round
second_shift(shift) == shift + 1

\* the loop over shift for one primer, from round `shift` on
RECURSIVE shift_loop(_, _, _)
shift_loop(primer, read, shift) ==
    LET t1 == trial_1(primer, read, shift)
        s2 == second_shift(shift)
        t2 == trial_2(primer, read, s2)
    IN  IF t1.status # "miss"
          THEN [status |-> t1.status, shift |-> shift, dir |-> 1,
                compared |-> t1.compared]
        ELSE IF t2.status # "miss"
          THEN [status |-> t2.status, shift |-> s2, dir |-> 2,
                compared |-> t2.compared]
        ELSE IF shift = MAX_SHIFT
          THEN [status |-> "miss", shift |-> s2, dir |-> 2,
                compared |-> t2.compared]
        ELSE shift_loop(primer, read, shift + 1)

\* the loop over the primers, from the i-th on
RECURSIVE primer_loop(_, _, _)
primer_loop(prs, read, i) ==
    IF i > Len(prs)
      THEN [status |-> "miss", primer |-> 0, shift |-> 0, dir |-> 0,
            compared |-> 0, consumed |-> Len(prs)]
    ELSE LET r == shift_loop(prs[i], read, 0)
         IN  IF r.status = "miss" /\ i < Len(prs)
               THEN primer_loop(prs, read, i + 1)
             ELSE [status |-> r.status, primer |-> i, shift |-> r.shift,
                   dir |-> r.dir, compared |-> r.compared, consumed |-> i]

cutlen_plus(primer, shift) == Len(primer) + shift

\* cutlen = len(primer) - shift
cutlen(primer, shift) == Len(primer) - shift

cut_seq(read, n) == SliceFrom(read, n)

cut_qual_kept(qual_str, n) == qual_str

cut_qual(qual_str, n) == SliceFrom(qual_str, n)

Errors == {"IndexError", "ZeroDivisionError"}

\* find_primer(primers, fastq_rec): the verdict, the record returned, and
\* where the scan stopped.  An exception leaves the record as it was.
find_primer(prs, rec) ==
    LET r == primer_loop(prs, rec.seq, 1)
        found == r.status = "hit"
        n == IF found THEN cutlen(prs[r.primer], r.shift) ELSE 0
    IN  [verdict  |-> CASE r.status = "hit" -> "found"
                        [] r.status = "miss" -> "notfound"
                        [] OTHER -> r.status,
         rec      |-> IF found /\ cutoff
                        THEN [seq |-> cut_seq(rec.seq, n),
                              qual_str |-> cut_qual(rec.qual_str, n)]
                        ELSE rec,
         primer   |-> r.primer,
         shift    |-> r.shift,
         dir      |-> r.dir,
         compared |-> r.compared,
         consumed |-> r.consumed]

-----------------------------------------------------------------------------
(* Inputs *)

RECURSIVE SeqsUpTo(_, _)
SeqsUpTo(S, n) ==
    IF n = 0 THEN {<<>>}
    ELSE LET shorter == SeqsUpTo(S, n - 1)
         IN  shorter \cup {Append(s, x) : s \in shorter, x \in S}

ScenarioReads ==
    { <<"A", "C", "G", "T", "T", "T", "T", "T">>,
      <<"T", "T", "A", "C", "G", "T", "T", "T">>,
      <<"G", "G", "G", "G", "G", "G", "G", "G">>,
      <<"A", "C", "G", "T", "A", "C", "G", "T">>,
      <<"A", "C", "G", "T", "A", "N", "G", "T">>,
      <<"T", "T", "T", "T", "T", "A", "T", "T">> }

ScanReads == SeqsUpTo(ReadNucl, MaxReadLen) \cup ScenarioReads

PrimerLists ==
    { <<>>,
      << <<"A", "C", "G", "T">> >>,
      << <<"A", "C">> >>,
      << <<"A", "C", "N">> >>,
      << <<"N">> >>,
      << <<"R", "Y">>, <<"W", "S", "N">> >>,
      << <<"A", "C">>, <<"G", "T">> >>,
      << <<"A", "C", "G", "T", "A", "N">> >>,
      << <<"A", "C", "G", "T", "A", "C">>, <<"C", "G", "T", "A", "C", "G">> >>,
      << <<"K", "M", "B", "D", "H", "V">>, <<"A", "C", "G", "T", "A", "C", "G">> >> }

Thresholds == {RECOGN_PERCENTAGE, 100}

QualSyms == <<"I", "5", "#">>

\* a quality string of length n
QualOfLen(n) == [i \in 1 .. n |-> QualSyms[((i - 1) % 3) + 1]]

\* records whose quality string is as long as the sequence, and records
\* whose quality string is one symbol longer (nothing validates a record)
ScanRecords ==
    {[seq |-> s, qual_str |-> QualOfLen(Len(s) + extra)] :
        s \in ScanReads, extra \in {0, 1} }

NoRec == [seq |-> <<>>, qual_str |-> <<>>]

NoScan == [verdict |-> "none", primer |-> 0, shift |-> 0, dir |-> 0,
           compared |-> 0, consumed |-> 0]

-----------------------------------------------------------------------------
(* The primer scanner alone: find_primer applied to one record, again and   *)
(* again, under every setting.                                              *)

MatchIdle == m_r = "A" /\ m_p = "A" /\ m_res = "none"

ScanIdle ==
    /\ fastq_rec = NoRec
    /\ scan_in = NoRec
    /\ scan_out = NoScan
    /\ n_scans = 0

NoFiles == [mR1 |-> <<>>, mR2 |-> <<>>, trR1 |-> <<>>, trR2 |-> <<>>]

NoPair == [R1 |-> [seq |-> <<>>, quality_str |-> <<>>],
           R2 |-> [seq |-> <<>>, quality_str |-> <<>>]]

NoLocal == [loffset |-> 0, overl |-> 0, fseq |-> <<>>, fqual |-> <<>>,
            rseq |-> <<>>, rqual |-> <<>>]

\* the return statement taken by merge_reads, with forw_start, forw_end and
\* rev_start where they were computed
Ref(branch, forw_start, forw_end, rev_start) ==
    [branch |-> branch, forw_start |-> forw_start, forw_end |-> forw_end,
     rev_start |-> rev_start]

NoRef == Ref("none", 0, 0, 0)

MergeIdle ==
    /\ mg_ref = NoRef
    /\ mg_runs = <<>>
    /\ blast_rep = <<>>
    /\ sbjct = <<>>
    /\ mg_pc = "idle"
    /\ mg_recs = NoPair
    /\ mg_local = NoLocal
    /\ mg_ret = -1
    /\ mg_exc = "none"
    /\ mg_calls = <<>>
    /\ curr_merged_seq = <<>>
    /\ curr_merged_qual = <<>>
    /\ n_merges = 0

NoOverlap == [raised |-> FALSE, seq |-> <<>>, qual |-> <<>>, done |-> FALSE]

OverlapIdle == ov_in = NoLocal /\ ov_out = NoOverlap

\* nothing of the plotting task has been computed
NoQualData ==
    /\ q_reads = <<>>
    /\ np_round = "rint"
    /\ sq_Y = <<>>
    /\ sq_processed = 0
    /\ sq_exc = "none"
    /\ pk_i = 0
    /\ pk_packet = <<>>
    /\ pk_pos = 0
    /\ pk_yielded = <<>>
    /\ par_Y = <<>>
    /\ par_sum = <<>>
    /\ par_exc = "none"

\* the plotting task not started, in a run without the -p option
QualIdle ==
    /\ q_pc = "idle"
    /\ n_thr = 1
    /\ how_to_open = "unassigned"
    /\ NoQualData

LockIdle ==
    /\ w_size = <<>>
    /\ w_done = <<>>
    /\ w_i = <<>>
    /\ w_pc = <<>>
    /\ w_tmp = <<>>
    /\ counter = 0
    /\ count_lock = 0
    /\ print_lock = 0
    /\ w_incs = <<>>
    /\ reads_at_all = 0

ClassifierIdle ==
    /\ rev_primers = 0
    /\ stats = [match |-> 0, trash |-> 0]
    /\ result_files = NoFiles
    /\ reads_processed = 0
    /\ processed = <<>>
    /\ crashed = "none"

InitScan ==
    /\ primers \in PrimerLists
    /\ cutoff \in BOOLEAN
    /\ threshold \in Thresholds
    /\ fastq_rec \in ScanRecords
    /\ scan_in = NoRec
    /\ scan_out = NoScan
    /\ n_scans = 0
    /\ MatchIdle
    /\ ClassifierIdle
    /\ MergeIdle
    /\ OverlapIdle
    /\ QualIdle
    /\ LockIdle

\* one call of find_primer(primers, fastq_rec); an exception ends the program
Scan ==
    /\ n_scans < MaxScans
    /\ scan_out.verdict \notin Errors
    /\ LET r == find_primer(primers, fastq_rec)
       IN  /\ fastq_rec' = r.rec
           /\ scan_out' = [verdict |-> r.verdict, primer |-> r.primer,
                           shift |-> r.shift, dir |-> r.dir,
                           compared |-> r.compared, consumed |-> r.consumed]
    /\ scan_in' = fastq_rec
    /\ n_scans' = n_scans + 1
    /\ UNCHANGED <<cfgVars, matchVars, clsVars, mergeVars, ovVars, qualVars,
                 lockVars>>

NextScan == Scan

SpecScan == InitScan /\ [][NextScan]_vars

-----------------------------------------------------------------------------
(* The single-position match predicate alone *)

InitMatch ==
    /\ primers = <<>>
    /\ cutoff = FALSE
    /\ threshold = RECOGN_PERCENTAGE
    /\ ScanIdle
    /\ ClassifierIdle
    /\ MergeIdle
    /\ OverlapIdle
    /\ QualIdle
    /\ LockIdle
    /\ m_r \in ReadNucl
    /\ m_p \in PrimerSymbols
    /\ m_res = "none"

\* primer[..] in MATCH_DICT[read[..]]
Match ==
    /\ m_res = "none"
    /\ m_res' = IF symbol_in_match_dict(m_p, m_r) THEN "match" ELSE "mismatch"
    /\ UNCHANGED <<cfgVars, scanVars, clsVars, mergeVars, ovVars, qualVars,
                 lockVars, m_r, m_p>>

NextMatch == Match

SpecMatch == InitMatch /\ [][NextMatch]_vars

-----------------------------------------------------------------------------
(* The cross-talk classifier: progress_counter's loop calling               *)
(* find_primer_organizer on one read pair after the other.                  *)

ClsPrimerLists ==
    { << <<"A", "C", "G", "T", "A", "C">>, <<"C", "G", "T", "A", "C", "G">> >>,
      << <<"A", "C", "G", "T">> >> }

ClsReads ==
    { <<"A", "C", "G", "T", "A", "C", "G", "T">>,
      <<"C", "G", "T", "A", "C", "G", "T", "T">>,
      <<"T", "T", "T", "T", "T", "T", "T", "T">>,
      <<"A", "C">> }

ClsRecord(s) == [seq |-> s, qual_str |-> QualOfLen(Len(s))]

\* a record whose quality line is one symbol longer than its sequence line:
\* read_fastq_pair takes the four lines as they come
ClsLongQualRecord(s) == [seq |-> s, qual_str |-> QualOfLen(Len(s) + 1)]

ClsPairs ==
    {[R1 |-> ClsRecord(a), R2 |-> ClsRecord(b)] : a, b \in ClsReads}
    \cup
    { [R1 |-> ClsLongQualRecord(<<"T", "T", "T", "T", "T", "T", "T", "T">>),
       R2 |-> ClsRecord(<<"T", "T", "T", "T", "T", "T", "T", "T">>)],
      [R1 |-> ClsRecord(<<"A", "C", "G", "T", "A", "C", "G", "T">>),
       R2 |-> ClsLongQualRecord(<<"A", "C", "G", "T", "A", "C", "G", "T">>)] }

\* what is left of reversed(primers) once all but k primers were taken:
\* primers[k-1], ..., primers[0] of the source's list
rest_of_reversed(k) == [i \in 1 .. k |-> primers[k - i + 1]]

Init ==
    /\ primers \in ClsPrimerLists
    /\ cutoff \in BOOLEAN
    /\ threshold = RECOGN_PERCENTAGE
    /\ ScanIdle
    /\ MatchIdle
    /\ rev_primers = Len(primers)
    /\ stats = [match |-> 0, trash |-> 0]
    /\ result_files = NoFiles
    /\ reads_processed = 0
    /\ processed = <<>>
    /\ crashed = "none"
    /\ MergeIdle
    /\ OverlapIdle
    /\ QualIdle
    /\ LockIdle

\* a variant of write_fastq_record that puts the record before the ones
\* the file already holds
write_fastq_record_first(outfile, fastq_record) ==
    <<fastq_record>> \o outfile

\* write_fastq_record(outfile, fastq_record): the four lines of the record
\* go to the end of the file
write_fastq_record(outfile, fastq_record) == Append(outfile, fastq_record)

\* one turn of progress_counter's loop: read_fastq_pair, then
\* find_primer_organizer(fastq_recs, result_files, stats)
find_primer_organizer(fastq_recs) ==
    LET r1 == find_primer(primers, fastq_recs.R1)
        r2 == find_primer(rest_of_reversed(rev_primers), fastq_recs.R2)
        entry(route) == [R1 |-> fastq_recs.R1, R2 |-> fastq_recs.R2,
                         route |-> route]
    IN  IF r1.verdict \in Errors
          THEN /\ crashed' = r1.verdict
               /\ processed' = Append(processed, entry(r1.verdict))
               /\ UNCHANGED <<rev_primers, stats, result_files,
                              reads_processed>>
        ELSE IF r2.verdict \in Errors
          THEN /\ crashed' = r2.verdict
               /\ processed' = Append(processed, entry(r2.verdict))
               /\ rev_primers' = rev_primers - r2.consumed
               /\ UNCHANGED <<stats, result_files, reads_processed>>
        ELSE /\ rev_primers' = rev_primers - r2.consumed
             /\ IF r1.verdict = "found" \/ r2.verdict = "found"
                  THEN /\ result_files' =
                            [result_files EXCEPT
                                !.mR1 = write_fastq_record(@, r1.rec),
                                !.mR2 = write_fastq_record(@, r2.rec)]
                       /\ stats' = [stats EXCEPT !.match = @ + 1]
                       /\ processed' = Append(processed, entry("kept"))
                  ELSE /\ result_files' =
                            [result_files EXCEPT
                                !.trR1 = write_fastq_record(@, r1.rec),
                                !.trR2 = write_fastq_record(@, r2.rec)]
                       /\ stats' = [stats EXCEPT !.trash = @ + 1]
                       /\ processed' = Append(processed, entry("trash"))
             /\ reads_processed' = reads_processed + 1
             /\ crashed' = "none"

ProcessPair ==
    /\ crashed = "none"
    /\ reads_processed < MaxPairs
    /\ \E fastq_recs \in ClsPairs : find_primer_organizer(fastq_recs)
    /\ UNCHANGED <<cfgVars, scanVars, matchVars, mergeVars, ovVars, qualVars,
                 lockVars>>

Next == ProcessPair

Spec == Init /\ [][Next]_vars

-----------------------------------------------------------------------------
(* Data of read_merging_16S.py *)

MAX_ALIGN_OFFSET == 40

MIN_OVERLAP == 11

MAX_CONST_MID_OFFS == 70

\* MIN_CONST_COV = 0.90, in percent
MIN_CONST_COV == 90

\* MIN_CONST_IDENT = 80.0, in percent
MIN_CONST_IDENT == 80

MAX_CRED_GAP_LEN == 90

SEED_LEN == MIN_OVERLAP

\* read_merging_16S.MAX_SHIFT (preprocess16S has a MAX_SHIFT of its own)
RM_MAX_SHIFT == 120

\* MIN_PIDENT = 0.90, in percent
MIN_PIDENT == 90

_RC_DICT ==
    [n \in {"A", "T", "C", "G", "U", "N"} |->
        CASE n = "A" -> "T"
          [] n = "T" -> "A"
          [] n = "C" -> "G"
          [] n = "G" -> "C"
          [] n = "U" -> "A"
          [] n = "N" -> "N"]

Reversed(s) == [i \in 1 .. Len(s) |-> s[Len(s) - i + 1]]

\* "".join(map(_single_nucl_rc, seq[::-1]))
_rc(seq) == [i \in 1 .. Len(seq) |-> _RC_DICT[seq[Len(seq) - i + 1]]]

\* ord() of the quality symbols in use (Phred33)
Ord(c) ==
    CASE c = "!" -> 33
      [] c = "#" -> 35
      [] c = "$" -> 36
      [] c = "5" -> 53
      [] c = "I" -> 73

\* Python's reading of a slice bound i on a string of length n
PyBound(i, n) ==
    IF i < 0 THEN (IF n + i < 0 THEN 0 ELSE n + i)
             ELSE (IF i > n THEN n ELSE i)

\* s[a:] and s[:b], for any integers a and b
PySliceFrom(s, a) == SubSeq(s, PyBound(a, Len(s)) + 1, Len(s))

PySliceTo(s, b) == SubSeq(s, 1, PyBound(b, Len(s)))

\* s[i] is defined: a negative index counts from the end
InRange(s, i) == -Len(s) <= i /\ i < Len(s)

PyAt(s, i) == IF i >= 0 THEN s[i + 1] ELSE s[Len(s) + i + 1]

-----------------------------------------------------------------------------
(* _naive_align *)

\* seed = fseq[len(fseq)-SEED_LEN-1:]
seed_of(fseq) == PySliceFrom(fseq, Len(fseq) - SEED_LEN - 1)

seed_score(seed, rseq, shift) ==
    Cardinality({pos \in 0 .. (SEED_LEN - 1) :
                    seed[pos + 1] = rseq[pos + shift + 1]})

\* the shifts of range(MAX_SHIFT) at which every seed[pos] and
\* rseq[pos + shift] of the inner loop exists: 0 .. k-1 for some k, since a
\* longer shift reads further into rseq
seed_shifts_in_range(seed, rseq) ==
    {shift \in 0 .. (RM_MAX_SHIFT - 1) :
        Len(seed) >= SEED_LEN /\ Len(rseq) >= shift + SEED_LEN}

\* score / SEED_LEN > MIN_PIDENT
seed_accepts(seed, rseq, shift) ==
    seed_score(seed, rseq, shift) * 100 > MIN_PIDENT * SEED_LEN

SetMin(S) == CHOOSE x \in S : \A y \in S : x <= y

\* the loop over shift: the first shift accepted; else the IndexError of the
\* first shift out of range; else -1
seed_loop(seed, rseq) ==
    LET tried == seed_shifts_in_range(seed, rseq)
        accepted == {shift \in tried : seed_accepts(seed, rseq, shift)}
    IN  IF accepted # {}
          THEN [raised |-> FALSE, shift |-> SetMin(accepted)]
        ELSE IF Cardinality(tried) < RM_MAX_SHIFT
          THEN [raised |-> TRUE, shift |-> -1]
        ELSE [raised |-> FALSE, shift |-> -1]

_naive_align_no_raise(fseq, rseq) ==
    LET r == seed_loop(seed_of(fseq), rseq)
    IN  IF r.raised THEN [raised |-> FALSE, shift |-> -1] ELSE r

_naive_align(fseq, rseq) == seed_loop(seed_of(fseq), rseq)

-----------------------------------------------------------------------------
(* _merge_by_overlap *)

\* variant of overlap_pick in which equal qualities take the reverse read
overlap_pick_strict(k, loffset, fseq, fqual, rseq, rqual) ==
    IF Ord(PyAt(fqual, loffset + k)) > Ord(PyAt(rqual, k))
      THEN [qual |-> PyAt(fqual, loffset + k), nucl |-> PyAt(fseq, loffset + k)]
      ELSE [qual |-> PyAt(rqual, k), nucl |-> PyAt(rseq, k)]

\* variant of overlap_pick that takes the forward read whatever the qualities
overlap_pick_forward(k, loffset, fseq, fqual, rseq, rqual) ==
    [qual |-> PyAt(fqual, loffset + k), nucl |-> PyAt(fseq, loffset + k)]

\* the loop body at overlap position k: the forward read's base and quality
\* if its quality is not lower, else the reverse read's
overlap_pick(k, loffset, fseq, fqual, rseq, rqual) ==
    IF Ord(PyAt(fqual, loffset + k)) >= Ord(PyAt(rqual, k))
      THEN [qual |-> PyAt(fqual, loffset + k), nucl |-> PyAt(fseq, loffset + k)]
      ELSE [qual |-> PyAt(rqual, k), nucl |-> PyAt(rseq, k)]

\* every index the loop body uses at position k exists
overlap_in_range(k, loffset, fseq, fqual, rseq, rqual) ==
    /\ InRange(fqual, loffset + k)
    /\ InRange(rqual, k)
    /\ IF Ord(PyAt(fqual, loffset + k)) >= Ord(PyAt(rqual, k))
         THEN InRange(fseq, loffset + k)
         ELSE InRange(rseq, k)

_merge_by_overlap(loffset, overl, fseq, fqual, rseq, rqual) ==
    IF \E k \in 0 .. (overl - 1) :
            ~overlap_in_range(k, loffset, fseq, fqual, rseq, rqual)
      THEN [raised |-> TRUE, seq |-> <<>>, qual |-> <<>>]
      ELSE [raised |-> FALSE,
            seq  |-> PySliceTo(fseq, loffset)
                     \o [k \in 1 .. overl |->
                           overlap_pick(k - 1, loffset, fseq, fqual, rseq, rqual).nucl]
                     \o PySliceFrom(rseq, overl),
            qual |-> PySliceTo(fqual, loffset)
                     \o [k \in 1 .. overl |->
                           overlap_pick(k - 1, loffset, fseq, fqual, rseq, rqual).qual]
                     \o PySliceFrom(rqual, overl)]

-----------------------------------------------------------------------------
(* merge_reads, one step up to each call of an external tool.  The tools'   *)
(* reports are inputs: any report of the sets below, or an empty one (the   *)
(* tool failed and left nothing to parse).                                  *)

Repeat(c, n) == [i \in 1 .. n |-> c]

\* an empty report line: "".split('\t') has no field to index
EmptyReport == [ok |-> FALSE, QSTART |-> 0, QEND |-> 0, SSTART |-> 0,
                SEND |-> 0, LENGTH |-> 0, PIDENT |-> 0, SSTRAND |-> ""]

\* a report line; SSTRAND is a column of blastn's reports only
Report(qstart, qend, sstart, send, length, pident) ==
    [ok |-> TRUE, QSTART |-> qstart, QEND |-> qend, SSTART |-> sstart,
     SEND |-> send, LENGTH |-> length, PIDENT |-> pident, SSTRAND |-> "plus"]

\* the same hit on the subject's minus strand
OnMinus(report) == [report EXCEPT !.SSTRAND = "minus"]

\* reports of fasta36 on the forward read against the reverse read
\* (PIDENT in hundredths of a percent)
FarReports ==
    { Report(50, 60, 1, 11, 11, 10000),
      Report(1, 30, 5, 34, 30, 10000),
      Report(45, 60, 41, 56, 16, 10000),
      Report(1, 10, 100, 109, 10, 10000),
      EmptyReport }

\* reports of blastn on the forward read against the database
FarefReports ==
    { Report(1, 60, 101, 160, 60, 10000),
      OnMinus(Report(1, 60, 101, 160, 60, 10000)),
      EmptyReport }

\* reference sequences blastdbcmd can fetch: one of A, C, G, T alone and one
\* with the ambiguity code R
SubjectSeqs == { <<"A", "A", "C", "G">>, <<"A", "C", "R", "T">> }

\* reports of fasta36 on the reverse read against the reference
RarefReports ==
    { Report(1, 135, s, s + 134, 135, 10000) :
        s \in {91, 141, 149, 150, 156, 161, 201, 251, 252} } \cup { EmptyReport }

\* reports of fasta36 on the constant region against the merged sequence
PmerReports ==
    { Report(1, 20, 80, 110, 20, 9500),
      Report(1, 18, 80, 110, 18, 9500),
      Report(1, 20, 80, 110, 20, 8000),
      Report(1, 20, 70, 110, 20, 9500),
      EmptyReport }

MergeRecord(s) == [seq |-> s, quality_str |-> QualOfLen(Len(s))]

\* reads shorter than SEED_LEN: the shortest and the longest of them, and
\* one of four different bases
ShortReads ==
    {Repeat("A", n) : n \in {0, 1, 2, SEED_LEN - 2, SEED_LEN - 1}}
        \cup {<<"A", "C", "G", "T">>}

F20 == Repeat("A", 8) \o <<"A", "C", "G", "T", "A", "C", "G", "T", "A", "C", "G", "T">>

\* reverse read whose reverse complement is GG ACGTACGTACG TTTT
R17 == _rc(<<"G", "G">> \o <<"A", "C", "G", "T", "A", "C", "G", "T", "A", "C", "G">>
           \o Repeat("T", 4))

\* the seed-long tail of F20 as a read of its own
F12 == SubSeq(F20, 9, 20)

F60 == Repeat("A", 48) \o <<"A", "C", "G", "T", "A", "C", "G", "T", "A", "C", "G", "T">>

MergePairs ==
    {[R1 |-> MergeRecord(a), R2 |-> MergeRecord(b)] :
        a \in ShortReads, b \in ShortReads}
    \cup
    {[R1 |-> MergeRecord(p[1]), R2 |-> MergeRecord(p[2])] :
        p \in { <<F20, R17>>,
                <<F12, R17>>,
                <<F20, Repeat("A", 30)>>,
                <<F20, Repeat("A", 4)>>,
                <<Repeat("A", 4), R17>>,
                <<F60, Repeat("A", 135)>>,
                <<<<"A", "A", "A", "A", "C", "C", "C", "C", "G", "G", "G", "G">>,
                  _rc(<<"C", "C", "G", "G", "G", "G", "T", "T", "T", "T">>)>> }}
    \cup
    \* a reverse read with a quality string shorter than its sequence
    {[R1 |-> MergeRecord(F60),
      R2 |-> [seq |-> Repeat("A", 135), quality_str |-> QualOfLen(5)]]}

InitMerge ==
    /\ primers = <<>>
    /\ cutoff = FALSE
    /\ threshold = RECOGN_PERCENTAGE
    /\ ScanIdle
    /\ MatchIdle
    /\ ClassifierIdle
    /\ MergeIdle
    /\ OverlapIdle
    /\ QualIdle
    /\ LockIdle

\* return `code`
Return(code) ==
    /\ mg_ret' = code
    /\ mg_pc' = "idle"
    /\ mg_exc' = "none"

\* an exception escapes merge_reads
Raise(exc) ==
    /\ mg_ret' = -1
    /\ mg_pc' = "idle"
    /\ mg_exc' = exc
    /\ UNCHANGED <<curr_merged_seq, curr_merged_qual>>

\* merge by overlap, store the result in the module's globals, return 0
MergeAndReturn(loffset, overl, l) ==
    LET m == _merge_by_overlap(loffset, overl, l.fseq, l.fqual, l.rseq, l.rqual)
    IN  IF m.raised
          THEN Raise("IndexError")
          ELSE /\ curr_merged_seq' = m.seq
               /\ curr_merged_qual' = m.qual
               /\ Return(0)

\* how a run of fasta36 can end: any report with exit status 0, or a failure
\* that leaves the redirected report file empty
FastaRuns(reports) ==
    {[exit |-> 0, writes |-> TRUE, report |-> r] : r \in reports}
    \cup {[exit |-> 1, writes |-> TRUE, report |-> EmptyReport]}

\* how a run of blastn can end: any report with exit status 0, or a failure
\* that leaves the file named by -out empty, or as it was
BlastnRuns ==
    {[exit |-> 0, writes |-> TRUE, report |-> r] : r \in FarefReports}
    \cup {[exit |-> 1, writes |-> TRUE, report |-> EmptyReport],
          [exit |-> 1, writes |-> FALSE, report |-> EmptyReport]}

\* what is known of a finished run: its exit status, the report read after
\* it, whether that report was empty, whether an earlier run wrote it
RunOf(run, report) ==
    [exit |-> run.exit, empty |-> ~report.ok, stale |-> ~run.writes,
     report |-> report]

\* variant of gap_too_long that refuses a gap of MAX_CRED_GAP_LEN itself
gap_too_long_from_max(gap_len) == gap_len >= MAX_CRED_GAP_LEN

\* gap_len > MAX_CRED_GAP_LEN
gap_too_long(gap_len) == gap_len > MAX_CRED_GAP_LEN

\* variant of constant_region_found that accepts every report
constant_region_always(pmer_report, merged_len) == TRUE

\* enough_cov and enough_indent and in_the_midl and in_the_midr
constant_region_found(pmer_report, merged_len) ==
    LET enough_cov == pmer_report.LENGTH * 100 > MIN_CONST_COV * constV3V4_len
        enough_indent == pmer_report.PIDENT > MIN_CONST_IDENT * 100
        in_the_midl == pmer_report.SSTART > MAX_CONST_MID_OFFS
        in_the_midr == pmer_report.SEND > merged_len - MAX_CONST_MID_OFFS
    IN  enough_cov /\ enough_indent /\ in_the_midl /\ in_the_midr

\* the branch merge_reads takes on the report of the reads' alignment
\* against one another: 'if reads_normally_overlap', 'elif rand_align',
\* 'elif too_short', and the unforeseen case after them
far_branch(far_report, fseq_len, rseq_len) ==
    LET too_short ==
            \/ far_report.QSTART < far_report.SSTART
            \/ far_report.QEND * rseq_len < far_report.SEND * fseq_len
        rand_align ==
            \/ fseq_len - far_report.QEND > MAX_ALIGN_OFFSET
            \/ far_report.SSTART > MAX_ALIGN_OFFSET
        reads_normally_overlap == ~too_short /\ ~rand_align
    IN  IF reads_normally_overlap THEN "overlap"
        ELSE IF rand_align THEN "blast"
        ELSE IF too_short THEN "too_short"
        ELSE "unforeseen"

\* variant of ref_branch whose short-overlap test is
\* forw_end - rev_start < MIN_OVERLAP
ref_branch_below(forw_start, forw_end, rev_start) ==
    LET gap == forw_end < rev_start
    IN  IF ~gap /\ forw_end - rev_start > MIN_OVERLAP
          THEN (IF forw_start < rev_start THEN "const_check"
                                          ELSE "not_before")
        ELSE IF ~gap /\ forw_end - rev_start < MIN_OVERLAP
          THEN "short_overlap"
        ELSE IF gap
          THEN (IF gap_too_long(rev_start - forw_end) THEN "long_gap"
                                                      ELSE "gap")
        ELSE "unforeseen"

\* the branch merge_reads takes on the reference coordinates, and the
\* unforeseen case after the three of them
ref_branch(forw_start, forw_end, rev_start) ==
    LET gap == forw_end < rev_start
    IN  IF ~gap /\ forw_end - rev_start > MIN_OVERLAP
          THEN (IF forw_start < rev_start THEN "const_check"
                                          ELSE "not_before")
        ELSE IF ~gap /\ forw_end - rev_start <= MIN_OVERLAP
          THEN "short_overlap"
        ELSE IF gap
          THEN (IF gap_too_long(rev_start - forw_end) THEN "long_gap"
                                                      ELSE "gap")
        ELSE "unforeseen"

\* merge_reads up to the seed alignment's outcome; if no shift is accepted,
\* _al_ag_one_anoth runs fasta36
\* merge_reads' first assignments, for each pair it can be given
merge_reads_locals ==
    [fastq_recs \in MergePairs |->
        [loffset |-> 0, overl |-> 0,
         fseq  |-> fastq_recs.R1.seq,
         fqual |-> fastq_recs.R1.quality_str,
         rseq  |-> _rc(fastq_recs.R2.seq),
         rqual |-> Reversed(fastq_recs.R2.quality_str)]]

\* shift = _naive_align(fseq, rseq), for each pair
naive_aligned ==
    [fastq_recs \in MergePairs |->
        _naive_align(merge_reads_locals[fastq_recs].fseq,
                     merge_reads_locals[fastq_recs].rseq)]

MergeBegin ==
    /\ mg_pc = "idle"
    /\ mg_exc = "none"
    /\ n_merges < MaxMerges
    /\ \E fastq_recs \in MergePairs :
        LET l == merge_reads_locals[fastq_recs]
            a == naive_aligned[fastq_recs]
            overl == a.shift + SEED_LEN
            loffset == Len(l.fseq) - overl - 1
        IN  /\ mg_recs' = fastq_recs
            /\ IF a.raised
                 THEN /\ Return(2)
                      /\ mg_calls' = <<>>
                      /\ mg_local' = l
                      /\ mg_ref' = Ref("seed_too_short", 0, 0, 0)
                      /\ UNCHANGED <<curr_merged_seq, curr_merged_qual>>
               ELSE IF a.shift # -1
                 THEN /\ MergeAndReturn(loffset, overl, l)
                      /\ mg_calls' = <<>>
                      /\ mg_local' = [l EXCEPT !.loffset = loffset,
                                               !.overl = overl]
                      /\ mg_ref' = Ref("seed", 0, 0, 0)
               ELSE \* _al_ag_one_anoth writes its files and runs fasta36
                    /\ mg_pc' = "far"
                    /\ mg_calls' = <<"fasta36">>
                    /\ mg_local' = l
                    /\ mg_ret' = -1
                    /\ mg_exc' = "none"
                    /\ mg_ref' = NoRef
                    /\ UNCHANGED <<curr_merged_seq, curr_merged_qual>>
            /\ sbjct' = IF ~a.raised /\ a.shift = -1 THEN <<l.rseq>> ELSE sbjct
    /\ n_merges' = n_merges + 1
    /\ mg_runs' = <<>>
    /\ UNCHANGED blast_rep
    /\ UNCHANGED <<cfgVars, scanVars, matchVars, clsVars, ovVars, qualVars,
                 lockVars>>

\* merge_reads from the report of the reads' alignment against one another
\* to its outcome, or to _blast_and_align running blastn
FarReport ==
    /\ mg_pc = "far"
    /\ \E run \in FastaRuns(FarReports) :
        LET l == mg_local
            far_report == run.report
            taken == far_branch(far_report, Len(l.fseq), Len(l.rseq))
            loffset == far_report.QSTART - far_report.SSTART
            overl == far_report.LENGTH + far_report.SSTART
                        + (Len(l.fseq) - far_report.QEND) - 1
        IN  /\ mg_runs' = Append(mg_runs, RunOf(run, far_report))
            /\ IF ~far_report.ok
                 THEN /\ Raise("IndexError")
                      /\ mg_ref' = Ref("raised", 0, 0, 0)
                      /\ UNCHANGED <<mg_calls, mg_local>>
               ELSE IF far_report.QSTART >= far_report.SSTART
                       /\ (Len(l.fseq) = 0 \/ Len(l.rseq) = 0)
                 THEN /\ Raise("ZeroDivisionError")
                      /\ mg_ref' = Ref("raised", 0, 0, 0)
                      /\ UNCHANGED <<mg_calls, mg_local>>
               ELSE IF taken = "overlap"
                 THEN /\ MergeAndReturn(loffset, overl, l)
                      /\ mg_local' = [l EXCEPT !.loffset = loffset,
                                               !.overl = overl]
                      /\ mg_ref' = Ref("overlap", 0, 0, 0)
                      /\ UNCHANGED mg_calls
               ELSE IF taken = "blast"
                 THEN /\ mg_pc' = "blast"
                      /\ mg_calls' = Append(mg_calls, "blastn")
                      /\ UNCHANGED <<mg_ret, mg_exc, mg_ref, mg_local,
                                     curr_merged_seq, curr_merged_qual>>
               ELSE IF taken = "too_short"
                 THEN /\ Return(2)
                      /\ mg_ref' = Ref("too_short", 0, 0, 0)
                      /\ UNCHANGED <<mg_calls, mg_local, curr_merged_seq,
                                     curr_merged_qual>>
               ELSE \* _handle_unforseen_case runs fasta36, then return 3
                    /\ Return(3)
                    /\ mg_calls' = Append(mg_calls, "fasta36")
                    /\ mg_ref' = Ref("unforeseen", 0, 0, 0)
                    /\ UNCHANGED <<mg_local, curr_merged_seq,
                                   curr_merged_qual>>
    /\ UNCHANGED <<mg_recs, n_merges, blast_rep, sbjct>>
    /\ UNCHANGED <<cfgVars, scanVars, matchVars, clsVars, ovVars, qualVars,
                 lockVars>>

\* how a run of blastdbcmd can end: the reference is written to
\* subject.fasta, or the tool fails and leaves the file as it was
BlastdbcmdRuns ==
    {[exit |-> 0, writes |-> TRUE, seq |-> q] : q \in SubjectSeqs}
    \cup {[exit |-> 1, writes |-> FALSE, seq |-> <<>>]}

\* _blast_and_align from the end of blastn's run to the start of blastdbcmd
BlastReport ==
    /\ mg_pc = "blast"
    /\ \E blastn \in BlastnRuns :
        LET file == IF blastn.writes THEN <<blastn.report>> ELSE blast_rep
            faref_report == file[1]
        IN  /\ blast_rep' = file
            /\ IF file = <<>>
                 THEN /\ Raise("FileNotFoundError")
                      /\ mg_runs' = Append(mg_runs,
                            [exit |-> blastn.exit, empty |-> TRUE,
                             stale |-> FALSE, report |-> EmptyReport])
                      /\ mg_ref' = Ref("raised", 0, 0, 0)
                      /\ UNCHANGED mg_calls
               ELSE IF ~faref_report.ok
                 THEN /\ Raise("IndexError")
                      /\ mg_runs' = Append(mg_runs, RunOf(blastn, faref_report))
                      /\ mg_ref' = Ref("raised", 0, 0, 0)
                      /\ UNCHANGED mg_calls
               ELSE /\ mg_pc' = "blastdbcmd"
                    /\ mg_calls' = Append(mg_calls, "blastdbcmd")
                    /\ mg_runs' = Append(mg_runs, RunOf(blastn, faref_report))
                    /\ UNCHANGED <<mg_ret, mg_exc, mg_ref, curr_merged_seq,
                                   curr_merged_qual>>
    /\ UNCHANGED <<mg_recs, mg_local, n_merges, sbjct>>
    /\ UNCHANGED <<cfgVars, scanVars, matchVars, clsVars, ovVars, qualVars,
                 lockVars>>

\* _blast_and_align from the end of blastdbcmd's run to the start of fasta36:
\* a subject hit on its minus strand is read back and reverse-complemented
SubjectFetched ==
    /\ mg_pc = "blastdbcmd"
    /\ \E run \in BlastdbcmdRuns :
        LET faref_report == blast_rep[1]
            file == IF run.writes THEN <<run.seq>> ELSE sbjct
            ran == Append(mg_runs,
                     [exit |-> run.exit, empty |-> FALSE,
                      stale |-> ~run.writes, report |-> EmptyReport])
        IN  /\ mg_runs' = ran
            /\ IF faref_report.SSTRAND = "minus" /\ file = <<>>
                 THEN /\ Raise("FileNotFoundError")
                      /\ sbjct' = file
                      /\ mg_ref' = Ref("raised", 0, 0, 0)
                      /\ UNCHANGED mg_calls
               ELSE IF /\ faref_report.SSTRAND = "minus"
                       /\ \E k \in 1 .. Len(file[1]) :
                              file[1][k] \notin DOMAIN _RC_DICT
                 THEN /\ Raise("KeyError")
                      /\ sbjct' = file
                      /\ mg_ref' = Ref("raised", 0, 0, 0)
                      /\ UNCHANGED mg_calls
               ELSE /\ sbjct' = IF faref_report.SSTRAND = "minus"
                                  THEN <<_rc(file[1])>> ELSE file
                    /\ mg_pc' = "raref"
                    /\ mg_calls' = Append(mg_calls, "fasta36")
                    /\ UNCHANGED <<mg_ret, mg_exc, mg_ref, curr_merged_seq,
                                   curr_merged_qual>>
    /\ UNCHANGED <<mg_recs, mg_local, n_merges, blast_rep>>
    /\ UNCHANGED <<cfgVars, scanVars, matchVars, clsVars, ovVars, qualVars,
                 lockVars>>

\* _blast_and_align from the end of fasta36's run on, then merge_reads to its
\* outcome, or, through _search_for_constant_region's merge, to the start of
\* its 'cat'
RarefReport ==
    /\ mg_pc = "raref"
    /\ \E fasta \in FastaRuns(RarefReports) :
        LET l == mg_local
            faref_report == blast_rep[1]
            raref_report == fasta.report
            forw_start == faref_report.SSTART - faref_report.QSTART
            forw_end == forw_start + Len(l.fseq)
            rev_start == raref_report.SSTART - raref_report.QSTART
            taken == ref_branch(forw_start, forw_end, rev_start)
            gap_len == rev_start - forw_end
            m == _merge_by_overlap(rev_start - forw_start,
                                   forw_end - rev_start,
                                   l.fseq, l.fqual, l.rseq, l.rqual)
            ref(branch) == Ref(branch, forw_start, forw_end, rev_start)
        IN  /\ mg_runs' = Append(mg_runs, RunOf(fasta, raref_report))
            /\ IF ~raref_report.ok
                 THEN /\ Raise("IndexError")
                      /\ mg_ref' = Ref("raised", 0, 0, 0)
                      /\ UNCHANGED <<mg_calls, mg_local, sbjct>>
               ELSE IF taken = "const_check"
                 THEN /\ mg_local' = [l EXCEPT
                                        !.loffset = rev_start - forw_start,
                                        !.overl = forw_end - rev_start]
                      /\ IF m.raised
                           THEN /\ Raise("IndexError")
                                /\ mg_ref' = ref("raised")
                                /\ UNCHANGED <<mg_calls, sbjct>>
                           ELSE /\ mg_pc' = "cat"
                                /\ sbjct' = <<m.seq>>
                                /\ mg_calls' = Append(mg_calls, "cat")
                                /\ mg_ref' = ref("none")
                                /\ UNCHANGED <<mg_ret, mg_exc, curr_merged_seq,
                                               curr_merged_qual>>
               ELSE IF taken = "not_before"
                 THEN /\ Return(1)
                      /\ mg_ref' = ref("not_before")
                      /\ UNCHANGED <<mg_calls, mg_local, sbjct,
                                     curr_merged_seq, curr_merged_qual>>
               ELSE IF taken = "short_overlap"
                 THEN /\ MergeAndReturn(rev_start - forw_start,
                                        forw_end - rev_start, l)
                      /\ mg_local' = [l EXCEPT
                                        !.loffset = rev_start - forw_start,
                                        !.overl = forw_end - rev_start]
                      /\ mg_ref' = ref("short_overlap")
                      /\ UNCHANGED <<mg_calls, sbjct>>
               ELSE IF taken = "long_gap"
                 THEN /\ Return(1)
                      /\ mg_ref' = ref("long_gap")
                      /\ UNCHANGED <<mg_calls, mg_local, sbjct,
                                     curr_merged_seq, curr_merged_qual>>
               ELSE IF taken = "gap"
                 THEN /\ curr_merged_seq' =
                             l.fseq \o Repeat("N", gap_len - 1) \o l.rseq
                      /\ curr_merged_qual' =
                             l.fqual \o Repeat("!", gap_len - 1) \o l.rqual
                      /\ Return(0)
                      /\ mg_ref' = ref("gap")
                      /\ UNCHANGED <<mg_calls, mg_local, sbjct>>
               ELSE \* _handle_unforseen_case runs fasta36, then return 3
                    /\ Return(3)
                    /\ sbjct' = <<l.rseq>>
                    /\ mg_calls' = Append(mg_calls, "fasta36")
                    /\ mg_ref' = ref("unforeseen")
                    /\ UNCHANGED <<mg_local, curr_merged_seq,
                                   curr_merged_qual>>
    /\ UNCHANGED <<mg_recs, n_merges, blast_rep>>
    /\ UNCHANGED <<cfgVars, scanVars, matchVars, clsVars, ovVars, qualVars,
                 lockVars>>

\* _search_for_constant_region from the end of 'cat' to the start of fasta36
QueryFormed ==
    /\ mg_pc = "cat"
    /\ mg_pc' = "const"
    /\ mg_calls' = Append(mg_calls, "fasta36")
    /\ mg_runs' = Append(mg_runs,
                    [exit |-> 0, empty |-> FALSE, stale |-> FALSE,
                     report |-> EmptyReport])
    /\ UNCHANGED <<mg_recs, mg_local, mg_ret, mg_exc, mg_ref, curr_merged_seq,
                   curr_merged_qual, n_merges, blast_rep, sbjct>>
    /\ UNCHANGED <<cfgVars, scanVars, matchVars, clsVars, ovVars, qualVars,
                 lockVars>>

\* _search_for_constant_region from the end of fasta36's run on, then
\* merge_reads' return; the function's assignments to curr_merged_seq and
\* curr_merged_qual are to locals of its own
ConstReport ==
    /\ mg_pc = "const"
    /\ \E run \in FastaRuns(PmerReports) :
        LET l == mg_local
            pmer_report == run.report
            merged_seq == _merge_by_overlap(l.loffset, l.overl, l.fseq,
                                            l.fqual, l.rseq, l.rqual).seq
        IN  /\ mg_runs' = Append(mg_runs, RunOf(run, pmer_report))
            /\ IF ~pmer_report.ok
                 THEN /\ Raise("IndexError")
                      /\ mg_ref' = [mg_ref EXCEPT !.branch = "raised"]
               ELSE IF constant_region_found(pmer_report, Len(merged_seq))
                 THEN /\ Return(0)
                      /\ mg_ref' = [mg_ref EXCEPT !.branch = "const"]
                      /\ UNCHANGED <<curr_merged_seq, curr_merged_qual>>
               ELSE /\ Return(1)
                    /\ mg_ref' = [mg_ref EXCEPT !.branch = "no_const"]
                    /\ UNCHANGED <<curr_merged_seq, curr_merged_qual>>
    /\ UNCHANGED <<mg_recs, mg_local, mg_calls, n_merges, blast_rep, sbjct>>
    /\ UNCHANGED <<cfgVars, scanVars, matchVars, clsVars, ovVars, qualVars,
                 lockVars>>

\* del_temp_files(), between two calls of merge_reads: query.fasta and
\* fasta36_report.txt are written anew before they are read, the other two
\* files are state
del_temp_files ==
    /\ mg_pc = "idle"
    /\ blast_rep' = <<>>
    /\ sbjct' = <<>>
    /\ UNCHANGED <<mg_pc, mg_recs, mg_local, mg_ret, mg_exc, mg_calls, mg_ref,
                   mg_runs, curr_merged_seq, curr_merged_qual, n_merges>>
    /\ UNCHANGED <<cfgVars, scanVars, matchVars, clsVars, ovVars, qualVars,
                 lockVars>>

NextMerge ==
    \/ MergeBegin
    \/ FarReport
    \/ BlastReport
    \/ SubjectFetched
    \/ RarefReport
    \/ QueryFormed
    \/ ConstReport
    \/ del_temp_files

SpecMerge == InitMerge /\ [][NextMerge]_vars

-----------------------------------------------------------------------------
(* _merge_by_overlap alone, on reads already facing the same strand, with   *)
(* offsets and overlap lengths inside and outside the reads.                *)

\* reads of _merge_by_overlap are as long as MaxOvLen at most
MaxOvLen == 2

OvNucl == {"A", "G"}

OvQuals == {"I", "5"}

\* a read with its quality string, of equal length
OvReads ==
    {[seq |-> [i \in 1 .. Len(b) |-> b[i][1]],
      qual |-> [i \in 1 .. Len(b) |-> b[i][2]]] :
        b \in SeqsUpTo(OvNucl \X OvQuals, MaxOvLen)}

\* the arguments of one call: an offset, a length of overlap and two reads
OvArgs(lo, ov, f, r) ==
    [loffset |-> lo, overl |-> ov, fseq |-> f.seq, fqual |-> f.qual,
     rseq |-> r.seq, rqual |-> r.qual]

InitOverlap ==
    /\ primers = <<>>
    /\ cutoff = FALSE
    /\ threshold = RECOGN_PERCENTAGE
    /\ ScanIdle
    /\ MatchIdle
    /\ ClassifierIdle
    /\ MergeIdle
    /\ QualIdle
    /\ LockIdle
    /\ \E lo \in -1 .. MaxOvLen, ov \in -1 .. (MaxOvLen + 1),
          f \in OvReads, r \in OvReads :
            ov_in = OvArgs(lo, ov, f, r)
    /\ ov_out = NoOverlap

\* one call of _merge_by_overlap(loffset, overl, fseq, fqual, rseq, rqual)
Overlap ==
    /\ ~ov_out.done
    /\ LET m == _merge_by_overlap(ov_in.loffset, ov_in.overl, ov_in.fseq,
                                  ov_in.fqual, ov_in.rseq, ov_in.rqual)
       IN  ov_out' = [raised |-> m.raised, seq |-> m.seq, qual |-> m.qual,
                      done |-> TRUE]
    /\ UNCHANGED <<cfgVars, scanVars, matchVars, clsVars, mergeVars, ov_in,
                   qualVars, lockVars>>

NextOverlap == Overlap

SpecOverlap == InitOverlap /\ [][NextOverlap]_vars

-----------------------------------------------------------------------------
(* The quality histogram of the plotting task: progress_counter with        *)
(* add_data_for_qual_plot when n_thr = 1, parallel_qual otherwise.  Both    *)
(* are run here on the same files, one after the other.                     *)

\* the files of the plotting task hold MaxStream read pairs at most
MaxStream == 3

top_x_scale == 40

\* X = np.arange(0, top_x_scale + step, step) with step = 0.5: X[k] = k / 2
\* for k = 0 .. 2 * top_x_scale
XIndices == 0 .. (2 * top_x_scale)

\* Y = np.zeros(int(top_x_scale / step), dtype=int)
YIndices == 0 .. (2 * top_x_scale - 1)

Zeros == [k \in YIndices |-> 0]

get_phred33(symb) == Ord(symb) - 33

\* the sum of qual_array (an array of integers), added up by halves
RECURSIVE SumPhred(_)
SumPhred(qual_str) ==
    IF qual_str = <<>> THEN 0
    ELSE IF Len(qual_str) = 1 THEN get_phred33(qual_str[1])
    ELSE LET half == Len(qual_str) \div 2
         IN  SumPhred(SubSeq(qual_str, 1, half))
                + SumPhred(SubSeq(qual_str, half + 1, Len(qual_str)))

\* a float64 has 52 bits of mantissa after the leading one
MantissaBits == 52

\* a / b brought into [1, 2) by doubling a or b: e is the binary exponent of
\* the quotient
RECURSIVE Normalised(_, _, _)
Normalised(a, b, e) ==
    IF a < b THEN Normalised(2 * a, b, e - 1)
    ELSE IF a >= 2 * b THEN Normalised(a, 2 * b, e + 1)
    ELSE [a |-> a, b |-> b, e |-> e]

\* the long division of a mantissa: the remainder r and the last bit of the
\* quotient once 'bits' more bits are produced
RECURSIVE MantissaDiv(_, _, _, _)
MantissaDiv(r, b, bit, bits) ==
    IF bits = 0 THEN [r |-> r, bit |-> bit]
    ELSE IF 2 * r >= b THEN MantissaDiv(2 * r - b, b, 1, bits - 1)
    ELSE MantissaDiv(2 * r, b, 0, bits - 1)

\* np.mean(qual_array) for a sum S > 0 of n integers: the float64 nearest to
\* S / n (the even mantissa of two equally near).  It is described by the
\* side of S / n it lies on (-1 below, 0 on it, 1 above), its distance
\* num / den from S / n in units of its last place, and its exponent e.
float64_div(S, n) ==
    LET m == Normalised(S, n, 0)
        d == MantissaDiv(m.a - m.b, m.b, 1, MantissaBits)
    IN  IF d.r = 0 THEN [side |-> 0, num |-> 0, den |-> 1, e |-> m.e]
        ELSE IF 2 * d.r < m.b \/ (2 * d.r = m.b /\ d.bit = 0)
          THEN [side |-> -1, num |-> d.r, den |-> m.b, e |-> m.e]
        ELSE [side |-> 1, num |-> m.b - d.r, den |-> m.b, e |-> m.e]

\* round() of a numpy.float64 to two decimals is numpy's own in one build
\* (rint(x * 100) / 100) and Python's float.__round__ in another (the
\* decimal nearest to the binary value)
NumpyRoundings == {"rint", "float"}

\* round(np.mean(qual_array), 2), in hundredths.  The float64 mean is
\* nearer to S / n than any hundredth or half of a hundredth that S / n is
\* not, so both roundings give the hundredth nearest to S / n unless S / n
\* lies midway between two hundredths lo and lo + 1.  There the side of the
\* float64 mean decides under float.__round__; under numpy's rounding the
\* product x * 100 is rounded to a float64 first, which is lo + 1/2 again
\* when the mean is near enough (half of the spacing of the float64 values
\* about lo + 1/2), and rint takes the even one of lo and lo + 1 then.
avg_qual(qual_str) ==
    LET S == SumPhred(qual_str)
        n == Len(qual_str)
        lo == (100 * S) \div n
        rem == (100 * S) % n
        even == lo + (lo % 2)
    IN  IF 2 * rem < n THEN lo
        ELSE IF 2 * rem > n THEN lo + 1
        ELSE LET x == float64_div(S, n)
                 t == Normalised(2 * lo + 1, 2, 0)
                 half == IF x.side < 0 /\ lo = 0
                           THEN 2 ^ (t.e - x.e - 2)
                         ELSE 2 ^ (t.e - x.e - 1)
             IN  IF x.side = 0 THEN even
                 ELSE IF np_round = "rint" /\ 100 * x.num <= half * x.den
                   THEN even
                 ELSE IF x.side < 0 THEN lo
                 ELSE lo + 1

\* np.abs(X - avg_qual)[k], in hundredths
abs_diff(a, k) == IF 50 * k >= a THEN 50 * k - a ELSE a - 50 * k

\* argmin over the indices first .. last: the first index of the least
\* value, found by halves
RECURSIVE argmin_in(_, _, _)
argmin_in(a, first, last) ==
    IF first = last THEN first
    ELSE LET mid == (first + last) \div 2
             left == argmin_in(a, first, mid)
             right == argmin_in(a, mid + 1, last)
         IN  IF abs_diff(a, right) < abs_diff(a, left) THEN right ELSE left

\* ( np.abs(X - avg_qual) ).argmin(): the first index of the nearest value
\* of X; the mean of no symbols is nan, and argmin of nan values is 0
min_indx(qual_str) ==
    IF qual_str = <<>> THEN 0
    ELSE argmin_in(avg_qual(qual_str), 0, 2 * top_x_scale)

\* for rec in fastq_recs.values(): Y[min_indx] += 1, on a state [Y, exc];
\* an index that Y does not have raises IndexError
RECURSIVE count_records(_, _)
count_records(st, recs) ==
    IF recs = <<>> \/ st.exc # "none" THEN st
    ELSE LET k == min_indx(Head(recs).qual_str)
         IN  IF k \in YIndices
               THEN count_records(
                        [Y |-> [st.Y EXCEPT ![k] = @ + 1], exc |-> "none"],
                        Tail(recs))
             ELSE [Y |-> st.Y, exc |-> "IndexError"]

\* add_data_for_qual_plot(fastq_recs), on the module's Y
add_data_for_qual_plot(Y, fastq_recs) ==
    count_records([Y |-> Y, exc |-> "none"], <<fastq_recs.R1, fastq_recs.R2>>)

\* single_qual_calcer's loop over data from the k-th pair on.  (The counter
\* and the console take part only every 'delay' pairs: see the processes
\* below.)
RECURSIVE qual_calcer_loop(_, _, _)
qual_calcer_loop(st, data, k) ==
    IF k > Len(data) \/ st.exc # "none" THEN st
    ELSE qual_calcer_loop(
            count_records(st, <<data[k].R1, data[k].R2>>), data, k + 1)

\* single_qual_calcer(data, reads_at_all): the Y it returns, or the
\* exception it raises
single_qual_calcer(data) ==
    qual_calcer_loop([Y |-> Zeros, exc |-> "none"], data, 1)

\* arr_sum(Y1, Y2): Y1 + Y2 of numpy arrays
arr_sum(Y1, Y2) == [k \in YIndices |-> Y1[k] + Y2[k]]

\* functools.reduce(arr_sum, Y) for a list Y that is not empty
RECURSIVE reduce_from(_, _, _)
reduce_from(acc, Y, k) ==
    IF k > Len(Y) THEN acc
    ELSE reduce_from(arr_sum(acc, Y[k]), Y, k + 1)

reduce_arr_sum(Y) == reduce_from(Y[1], Y, 2)

\* a variant of pack_size that leaves the remainder out
pack_size_floor(n_pairs, n) == n_pairs \div n

\* pack_size = reads_at_all // n_thr, plus one if the division has a
\* remainder
pack_size(n_pairs, n) ==
    IF n_pairs % n # 0 THEN n_pairs \div n + 1 ELSE n_pairs \div n

QualRecord(q) == [seq |-> [i \in 1 .. Len(q) |-> "A"], qual_str |-> q]

\* 200 symbols of mean quality 1.755, midway between two hundredths: the
\* float64 mean lies below it, and x * 100 is 175.5 again
MidwayQual == Repeat("$", 117) \o Repeat("!", 83)

\* read pairs with mean qualities 20 and 11, 20.67 and 20, 30 and 1.755,
\* and a pair whose forward read has mean quality 40
QualPairs ==
    { [R1 |-> QualRecord(<<"5">>), R2 |-> QualRecord(<<"5", "#">>)],
      [R1 |-> QualRecord(<<"I", "5", "#">>), R2 |-> QualRecord(<<"5">>)],
      [R1 |-> QualRecord(<<"I", "5">>), R2 |-> QualRecord(MidwayQual)],
      [R1 |-> QualRecord(<<"I">>), R2 |-> QualRecord(<<"5">>)] }

\* fastq_read_packets and parallel_qual exist when n_thr > 1
PoolSizes == {2, 3}

\* the global how_to_open is assigned in the branch of the -p option only:
\* OPEN_FUNCS[file_type] of the primer file, open for a plain file,
\* open_as_gzip for a .gz file and open_as_bz2 for a .bz2 file; without -p
\* the name stays unassigned
PrimerOpeners == {"unassigned", "open", "open_as_gzip", "open_as_bz2"}

\* how sum(1 for line in how_to_open(read_paths["R1"])) can end on the
\* plain FASTQ file of n_pairs read pairs the script has written: "none"
\* when the lines are counted, or the exception raised.  gzip reads an
\* empty file as no lines and refuses any other plain file with
\* BadGzipFile, which is a plain OSError before Python 3.8.  bz2 refuses an
\* empty file with EOFError (the stream ends before its end marker) and any
\* other plain file with OSError (invalid data stream).
count_lines_exc(opener, n_pairs) ==
    IF opener = "unassigned" THEN {"NameError"}
    ELSE IF opener = "open_as_gzip"
      THEN (IF n_pairs > 0 THEN {"BadGzipFile", "OSError"} ELSE {"none"})
    ELSE IF opener = "open_as_bz2"
      THEN (IF n_pairs > 0 THEN {"OSError"} ELSE {"EOFError"})
    ELSE {"none"}

InitQual ==
    /\ primers = <<>>
    /\ cutoff = FALSE
    /\ threshold = RECOGN_PERCENTAGE
    /\ ScanIdle
    /\ MatchIdle
    /\ ClassifierIdle
    /\ MergeIdle
    /\ OverlapIdle
    /\ LockIdle
    /\ q_pc = "single"
    /\ q_reads \in SeqsUpTo(QualPairs, MaxStream)
    /\ n_thr \in PoolSizes
    /\ np_round \in NumpyRoundings
    /\ how_to_open \in PrimerOpeners
    /\ sq_Y = Zeros
    /\ sq_processed = 0
    /\ sq_exc = "none"
    /\ pk_i = 0
    /\ pk_packet = <<>>
    /\ pk_pos = 0
    /\ pk_yielded = <<>>
    /\ par_Y = <<>>
    /\ par_sum = <<>>
    /\ par_exc = "none"

QualRest == <<cfgVars, scanVars, matchVars, clsVars, mergeVars, ovVars,
              lockVars, q_reads, n_thr, np_round, how_to_open>>

\* one turn of progress_counter's loop with add_data_for_qual_plot
SingleStep ==
    /\ q_pc = "single"
    /\ sq_processed < Len(q_reads)
    /\ LET st == add_data_for_qual_plot(sq_Y, q_reads[sq_processed + 1])
       IN  /\ sq_Y' = st.Y
           /\ sq_exc' = st.exc
           /\ IF st.exc = "none"
                THEN sq_processed' = sq_processed + 1 /\ q_pc' = "single"
                ELSE sq_processed' = sq_processed /\ q_pc' = "parallel"
    /\ UNCHANGED <<pk_i, pk_packet, pk_pos, pk_yielded, par_Y, par_sum,
                   par_exc>>
    /\ UNCHANGED QualRest

\* progress_counter's loop ends: reads_processed = read_pairs_num
SingleEnd ==
    /\ q_pc = "single"
    /\ sq_processed = Len(q_reads)
    /\ q_pc' = "parallel"
    /\ UNCHANGED <<sq_Y, sq_processed, sq_exc, pk_i, pk_packet, pk_pos,
                   pk_yielded, par_Y, par_sum, par_exc>>
    /\ UNCHANGED QualRest

\* parallel_qual up to reads_at_all = int(sum(1 for line in
\* how_to_open(read_paths["R1"])) / 4): the locks, the counter and X are
\* made, then the global how_to_open is looked up and the lines are counted
ParallelBegin ==
    /\ q_pc = "parallel"
    /\ \E exc \in count_lines_exc(how_to_open, Len(q_reads)) :
          IF exc = "none"
            THEN q_pc' = "packets" /\ UNCHANGED par_exc
          ELSE q_pc' = "done" /\ par_exc' = exc
    /\ UNCHANGED <<sq_Y, sq_processed, sq_exc, pk_i, pk_packet, pk_pos,
                   pk_yielded, par_Y, par_sum>>
    /\ UNCHANGED QualRest

\* fastq_read_packets: tmp = read_fastq_pair(...) in the loop over j
PacketRead ==
    /\ q_pc = "packets"
    /\ pk_i < n_thr
    /\ Len(pk_packet) < pack_size(Len(q_reads), n_thr)
    /\ IF pk_pos < Len(q_reads)
         THEN /\ pk_packet' = Append(pk_packet, q_reads[pk_pos + 1])
              /\ pk_pos' = pk_pos + 1
              /\ UNCHANGED <<pk_yielded, q_pc>>
         ELSE \* tmp is None: yield the partial packet, then return
              /\ pk_yielded' = Append(pk_yielded, pk_packet)
              /\ pk_packet' = <<>>
              /\ q_pc' = "starmap"
              /\ UNCHANGED pk_pos
    /\ UNCHANGED <<sq_Y, sq_processed, sq_exc, pk_i, par_Y, par_sum, par_exc>>
    /\ UNCHANGED QualRest

\* fastq_read_packets: the loop over j is over, yield the full packet
PacketYield ==
    /\ q_pc = "packets"
    /\ pk_i < n_thr
    /\ Len(pk_packet) = pack_size(Len(q_reads), n_thr)
    /\ pk_yielded' = Append(pk_yielded, pk_packet)
    /\ pk_packet' = <<>>
    /\ pk_i' = pk_i + 1
    /\ UNCHANGED <<q_pc, sq_Y, sq_processed, sq_exc, pk_pos, par_Y, par_sum,
                   par_exc>>
    /\ UNCHANGED QualRest

\* fastq_read_packets: the loop over i is over
PacketsEnd ==
    /\ q_pc = "packets"
    /\ pk_i = n_thr
    /\ q_pc' = "starmap"
    /\ UNCHANGED <<sq_Y, sq_processed, sq_exc, pk_i, pk_packet, pk_pos,
                   pk_yielded, par_Y, par_sum, par_exc>>
    /\ UNCHANGED QualRest

\* pool.starmap(single_qual_calcer, ...): one result per packet, in the
\* order of the packets; an exception of a process is raised again
Starmap ==
    /\ q_pc = "starmap"
    /\ LET res == [k \in 1 .. Len(pk_yielded) |->
                        single_qual_calcer(pk_yielded[k])]
           failed == {k \in 1 .. Len(pk_yielded) : res[k].exc # "none"}
       IN  IF failed = {}
             THEN /\ par_Y' = [k \in 1 .. Len(pk_yielded) |-> res[k].Y]
                  /\ q_pc' = "reduce"
                  /\ UNCHANGED par_exc
             ELSE /\ par_exc' = "IndexError"
                  /\ q_pc' = "done"
                  /\ UNCHANGED par_Y
    /\ UNCHANGED <<sq_Y, sq_processed, sq_exc, pk_i, pk_packet, pk_pos,
                   pk_yielded, par_sum>>
    /\ UNCHANGED QualRest

\* return reduce(arr_sum, Y)
Reduce ==
    /\ q_pc = "reduce"
    /\ par_sum' = reduce_arr_sum(par_Y)
    /\ q_pc' = "done"
    /\ UNCHANGED <<sq_Y, sq_processed, sq_exc, pk_i, pk_packet, pk_pos,
                   pk_yielded, par_Y, par_exc>>
    /\ UNCHANGED QualRest

NextQual ==
    \/ SingleStep
    \/ SingleEnd
    \/ ParallelBegin
    \/ PacketRead
    \/ PacketYield
    \/ PacketsEnd
    \/ Starmap
    \/ Reduce

SpecQual == InitQual /\ [][NextQual]_vars

-----------------------------------------------------------------------------
(* The workers of parallel_qual and their shared progress counter
   (SpecWorkers) *)

\* processes print the number of processed reads every 'delay' reads
delay == 1000

\* the lengths of the packets fastq_read_packets yields for n_pairs read
\* pairs and n processes: packets of pack_size pairs, the first packet the
\* file cannot fill is yielded short and is the last one
packet_lens(n_pairs, n) ==
    LET size == pack_size(n_pairs, n)
        full == IF size = 0 THEN n ELSE n_pairs \div size
        count == IF full >= n THEN n ELSE full + 1
    IN  [k \in 1 .. count |->
            IF k <= full THEN size ELSE n_pairs - full * size]

\* a variant of lock_free that lets a process in whoever holds the lock
lock_free_always(lock) == TRUE

\* multiprocessing.Lock: 'with lock' waits until no process holds it; the
\* lock holds the number of the task that has it, 0 when it is free
lock_free(lock) == lock = 0

Workers == DOMAIN w_pc

\* numbers of read pairs in the input files: none, too few for any report
\* of progress, and enough for one, two and three reports a process
WorkerLoads == {0, 1000, 2003, 4005, 6006}

InitWorkers ==
    /\ primers = <<>>
    /\ cutoff = FALSE
    /\ threshold = RECOGN_PERCENTAGE
    /\ ScanIdle
    /\ MatchIdle
    /\ ClassifierIdle
    /\ MergeIdle
    /\ OverlapIdle
    /\ NoQualData
    /\ LockIdle
    /\ q_pc = "parallel"
    /\ n_thr \in PoolSizes
    /\ how_to_open \in PrimerOpeners

WorkersRest == <<cfgVars, scanVars, matchVars, clsVars, mergeVars, ovVars,
                 qualVars, w_size, reads_at_all>>

\* parallel_qual up to pool.starmap: the lines of the R1 file are counted
\* with the global how_to_open, the pool is made, and the packets of
\* fastq_read_packets are handed to the processes
PoolStart ==
    /\ q_pc = "parallel"
    /\ \E load \in WorkerLoads :
          \E exc \in count_lines_exc(how_to_open, load) :
              IF exc = "none"
                THEN LET lens == packet_lens(load, n_thr)
                     IN  /\ reads_at_all' = load
                         /\ w_size' = lens
                         /\ w_done' = [w \in DOMAIN lens |-> 0]
                         /\ w_i' = [w \in DOMAIN lens |-> 0]
                         /\ w_pc' = [w \in DOMAIN lens |-> "loop"]
                         /\ w_tmp' = [w \in DOMAIN lens |-> 0]
                         /\ w_incs' = [w \in DOMAIN lens |-> 0]
                         /\ q_pc' = "starmap"
                         /\ UNCHANGED par_exc
              ELSE /\ q_pc' = "done"
                   /\ par_exc' = exc
                   /\ UNCHANGED <<reads_at_all, w_size, w_done, w_i, w_pc,
                                  w_tmp, w_incs>>
    /\ UNCHANGED <<cfgVars, scanVars, matchVars, clsVars, mergeVars, ovVars,
                   q_reads, n_thr, np_round, how_to_open, sq_Y, sq_processed,
                   sq_exc, pk_i, pk_packet, pk_pos, pk_yielded, par_Y,
                   par_sum, counter, count_lock, print_lock>>

\* the turns of 'for fastq_recs in data' up to the next one in which
\* i == delay, or up to the end of the packet: each counts its pair's records
\* and ends with i += 1
WorkerCount(w) ==
    /\ w_pc[w] = "loop"
    /\ w_done[w] < w_size[w]
    /\ w_i[w] # delay
    /\ LET left == w_size[w] - w_done[w]
           turns == IF delay - w_i[w] <= left THEN delay - w_i[w] ELSE left
       IN  /\ w_done' = [w_done EXCEPT ![w] = @ + turns]
           /\ w_i' = [w_i EXCEPT ![w] = @ + turns]
    /\ UNCHANGED <<w_pc, w_tmp, counter, count_lock, print_lock, w_incs>>
    /\ UNCHANGED WorkersRest

\* a turn in which i == delay: the pair's records are counted, then the
\* process waits for count_lock
WorkerHit(w) ==
    /\ w_pc[w] = "loop"
    /\ w_done[w] < w_size[w]
    /\ w_i[w] = delay
    /\ w_done' = [w_done EXCEPT ![w] = @ + 1]
    /\ w_pc' = [w_pc EXCEPT ![w] = "count_lock"]
    /\ UNCHANGED <<w_i, w_tmp, counter, count_lock, print_lock, w_incs>>
    /\ UNCHANGED WorkersRest

\* with count_lock:
AcquireCount(w) ==
    /\ w_pc[w] = "count_lock"
    /\ lock_free(count_lock)
    /\ count_lock' = w
    /\ w_pc' = [w_pc EXCEPT ![w] = "load"]
    /\ UNCHANGED <<w_done, w_i, w_tmp, counter, print_lock, w_incs>>
    /\ UNCHANGED WorkersRest

\* counter.value += delay reads the shared value ...
LoadCounter(w) ==
    /\ w_pc[w] = "load"
    /\ w_tmp' = [w_tmp EXCEPT ![w] = counter]
    /\ w_pc' = [w_pc EXCEPT ![w] = "store"]
    /\ UNCHANGED <<w_done, w_i, counter, count_lock, print_lock, w_incs>>
    /\ UNCHANGED WorkersRest

\* ... and writes the sum back
StoreCounter(w) ==
    /\ w_pc[w] = "store"
    /\ counter' = w_tmp[w] + delay
    /\ w_incs' = [w_incs EXCEPT ![w] = @ + 1]
    /\ w_pc' = [w_pc EXCEPT ![w] = "end_count"]
    /\ UNCHANGED <<w_done, w_i, w_tmp, count_lock, print_lock>>
    /\ UNCHANGED WorkersRest

\* the end of 'with count_lock'; the status bar's length is then computed
\* from counter.value outside any lock, and the process waits for print_lock
ReleaseCount(w) ==
    /\ w_pc[w] = "end_count"
    /\ count_lock' = 0
    /\ w_pc' = [w_pc EXCEPT ![w] = "print_lock"]
    /\ UNCHANGED <<w_done, w_i, w_tmp, counter, print_lock, w_incs>>
    /\ UNCHANGED WorkersRest

\* with print_lock:
AcquirePrint(w) ==
    /\ w_pc[w] = "print_lock"
    /\ lock_free(print_lock)
    /\ print_lock' = w
    /\ w_pc' = [w_pc EXCEPT ![w] = "printn"]
    /\ UNCHANGED <<w_done, w_i, w_tmp, counter, count_lock, w_incs>>
    /\ UNCHANGED WorkersRest

\* printn(...), the end of 'with print_lock', i = 0 and the turn's i += 1
PrintRelease(w) ==
    /\ w_pc[w] = "printn"
    /\ print_lock' = 0
    /\ w_i' = [w_i EXCEPT ![w] = 1]
    /\ w_pc' = [w_pc EXCEPT ![w] = "loop"]
    /\ UNCHANGED <<w_done, w_tmp, counter, count_lock, w_incs>>
    /\ UNCHANGED WorkersRest

\* return Y
WorkerReturn(w) ==
    /\ w_pc[w] = "loop"
    /\ w_done[w] = w_size[w]
    /\ w_pc' = [w_pc EXCEPT ![w] = "done"]
    /\ UNCHANGED <<w_done, w_i, w_tmp, counter, count_lock, print_lock,
                   w_incs>>
    /\ UNCHANGED WorkersRest

NextWorkers ==
    \/ PoolStart
    \/ \E w \in Workers : WorkerCount(w)
    \/ \E w \in Workers : WorkerHit(w)
    \/ \E w \in Workers : AcquireCount(w)
    \/ \E w \in Workers : LoadCounter(w)
    \/ \E w \in Workers : StoreCounter(w)
    \/ \E w \in Workers : ReleaseCount(w)
    \/ \E w \in Workers : AcquirePrint(w)
    \/ \E w \in Workers : PrintRelease(w)
    \/ \E w \in Workers : WorkerReturn(w)

SpecWorkers == InitWorkers /\ [][NextWorkers]_vars

-----------------------------------------------------------------------------
(* Properties of the primer scanner (SpecScan) *)

Scanned == scan_out.verdict # "none"

IsPrefix(p, r) == Len(p) <= Len(r) /\ SubSeq(r, 1, Len(p)) = p

HasN(p) == \E i \in 1 .. Len(p) : p[i] = "N"

Min(a, b) == IF a <= b THEN a ELSE b

\* the first primer of the set is an exact prefix of the read scanned
FirstPrimerIsPrefix ==
    /\ Scanned
    /\ Len(primers) >= 1
    /\ IsPrefix(primers[1], scan_in.seq)

\* the exact-prefix match is reported at shift 0 and cut by len(p)
PrefixMatchReported ==
    /\ scan_out.verdict = "found"
    /\ scan_out.primer = 1
    /\ scan_out.shift = 0
    /\ cutoff =>
        /\ fastq_rec.seq = SliceFrom(scan_in.seq, Len(primers[1]))
        /\ fastq_rec.qual_str = SliceFrom(scan_in.qual_str, Len(primers[1]))

\* C3, as stated: for every primer p and read r over {A,C,G,T,N} with p an
\* exact prefix of r, and every threshold <= 1.0, the scan reports a match at
\* shift 0 and, with cut-off, removes exactly len(p) leading symbols of the
\* sequence and of the quality string.
\* (Scans that raise are set aside here: they are what C4 is about.)
C3_PrefixAlwaysFound ==
    (FirstPrimerIsPrefix /\ scan_out.verdict \notin Errors)
        => PrefixMatchReported

\* C3, amended: the same for every primer p over {A,C,G,T}, without N (an N
\* of the read matches no primer symbol, so a prefix holding N scores less
\* than its length).
C3_PrefixWithoutNFound ==
    (FirstPrimerIsPrefix /\ ~HasN(primers[1])) => PrefixMatchReported

C3_Witness ==
    /\ FirstPrimerIsPrefix
    /\ ~HasN(primers[1])
    /\ Len(primers[1]) >= 4
    /\ threshold = 100
    /\ cutoff
    /\ scan_out.verdict = "found"
    /\ Len(fastq_rec.seq) = Len(scan_in.seq) - Len(primers[1])

\* C4: no scan ends in a division by an empty overlap span.
C4_NoDivisionByZero == scan_out.verdict # "ZeroDivisionError"

\* C5: a read shorter than the primer being tried is scanned without a crash,
\* each trial comparing min(len(read), primer_length - shift) position pairs.
C5_ShortReadScanned ==
    (/\ Scanned
     /\ scan_out.primer >= 1
     /\ Len(scan_in.seq) < Len(primers[scan_out.primer]))
    => /\ scan_out.verdict \notin Errors
       /\ scan_out.compared =
            Min(Len(scan_in.seq),
                Len(primers[scan_out.primer]) - scan_out.shift)

Scenario(primer, read) ==
    /\ Scanned
    /\ primers = <<primer>>
    /\ scan_in.seq = read
    /\ threshold = RECOGN_PERCENTAGE
    /\ cutoff

\* C6: a successful trial at shift s with cut-off removes exactly
\* primer_length - s leading symbols, in both directions; ACGT on ACGTTTTT
\* matches at shift 0 and leaves TTTT; ACGT on TTACGTTT matches at shift 2 in
\* the read-shifted direction and leaves ACGTTT.
C6_CutIsPrimerLenMinusShift ==
    /\ (scan_out.verdict = "found" /\ cutoff) =>
         LET n == Len(primers[scan_out.primer]) - scan_out.shift
         IN  /\ scan_out.dir \in {1, 2}
             /\ n >= 1
             /\ Len(fastq_rec.seq) = Len(scan_in.seq) - n
             /\ \A i \in 1 .. Len(fastq_rec.seq) :
                    fastq_rec.seq[i] = scan_in.seq[i + n]
    /\ Scenario(<<"A", "C", "G", "T">>,
                <<"A", "C", "G", "T", "T", "T", "T", "T">>) =>
         /\ scan_out.verdict = "found"
         /\ scan_out.shift = 0 /\ scan_out.dir = 1
         /\ fastq_rec.seq = <<"T", "T", "T", "T">>
    /\ Scenario(<<"A", "C", "G", "T">>,
                <<"T", "T", "A", "C", "G", "T", "T", "T">>) =>
         /\ scan_out.verdict = "found"
         /\ scan_out.shift = 2 /\ scan_out.dir = 2
         /\ fastq_rec.seq = <<"A", "C", "G", "T", "T", "T">>

C6_Witness ==
    /\ Scenario(<<"A", "C", "G", "T">>,
                <<"T", "T", "A", "C", "G", "T", "T", "T">>)
    /\ scan_out.verdict = "found"
    /\ scan_out.dir = 2
    /\ scan_out.shift = 2
    /\ Len(fastq_rec.seq) = 6

LenOK(rec) == Len(rec.seq) = Len(rec.qual_str)

\* C7: len(sequence) == len(quality) is kept by every scan, matched or not,
\* cut or not, however often the record is scanned.
C7_LengthsStayEqual == [][LenOK(fastq_rec) => LenOK(fastq_rec')]_vars

C7_Witness ==
    /\ n_scans = 2
    /\ cutoff
    /\ scan_out.verdict = "found"
    /\ Len(fastq_rec.seq) < Len(scan_in.seq)
    /\ Len(scan_in.seq) < 8
    /\ LenOK(fastq_rec)

OrdersOf(n) ==
    {f \in [1 .. n -> 1 .. n] : \A i, j \in 1 .. n : f[i] = f[j] => i = j}

\* C8: the verdict and the returned read of a scan are the same for every
\* permutation of the primer set.  (Orders under which the scan raises are
\* set aside here: they are what C4 and C5 are about.)
C8_PrimerOrderIrrelevant ==
    (Scanned /\ scan_out.verdict \notin Errors) =>
        \A f \in OrdersOf(Len(primers)) :
            LET permuted == [i \in 1 .. Len(primers) |-> primers[f[i]]]
                r == find_primer(permuted, scan_in)
            IN  r.verdict \notin Errors =>
                    /\ r.verdict = scan_out.verdict
                    /\ r.rec = fastq_rec

-----------------------------------------------------------------------------
(* Properties of the match predicate (SpecMatch) *)

\* the nucleotides a primer symbol denotes (IUPAC)
IUPAC(p) ==
    CASE p = "A" -> {"A"}
      [] p = "C" -> {"C"}
      [] p = "G" -> {"G"}
      [] p = "T" -> {"T"}
      [] p = "R" -> {"A", "G"}
      [] p = "Y" -> {"C", "T"}
      [] p = "S" -> {"C", "G"}
      [] p = "W" -> {"A", "T"}
      [] p = "K" -> {"G", "T"}
      [] p = "M" -> {"A", "C"}
      [] p = "B" -> {"C", "G", "T"}
      [] p = "D" -> {"A", "G", "T"}
      [] p = "H" -> {"A", "C", "T"}
      [] p = "V" -> {"A", "C", "G"}
      [] p = "N" -> {"A", "C", "G", "T"}

\* C9: the match predicate agrees with the IUPAC reference: for r in
\* {A,C,G,T}, p matches r exactly when r is one of the nucleotides p denotes
\* (8 symbols each, r itself and N among them); r = N matches nothing.
C9_MatchAgreesWithIUPAC ==
    /\ m_res # "none" =>
         ((m_res = "match") <=> (m_r # "N" /\ m_r \in IUPAC(m_p)))
    /\ m_res # "none" /\ m_r # "N" =>
         LET matching == {p \in PrimerSymbols : symbol_in_match_dict(p, m_r)}
         IN  /\ Cardinality(matching) = 8
             /\ m_r \in matching
             /\ "N" \in matching
    /\ m_res # "none" /\ m_r = "N" => m_res = "mismatch"

C9_Witness == m_res = "match" /\ m_r = "A" /\ m_p = "W"

-----------------------------------------------------------------------------
(* Properties of the classifier (Spec) *)

\* the read matches at least one primer of the set
MatchesSome(prs, rec) == find_primer(prs, rec).verdict = "found"

Routed(e) == e.route \in {"kept", "trash"}

\* C1: every pair, wherever it stands in the stream, goes to the kept
\* streams if and only if its forward read matches a primer of the forward
\* set or its reverse read matches a primer of the reversed set, and to the
\* trash streams otherwise.
C1_KeptIffEitherReadMatches ==
    \A i \in 1 .. Len(processed) :
        Routed(processed[i]) =>
            ((processed[i].route = "kept") <=>
                (\/ MatchesSome(primers, processed[i].R1)
                 \/ MatchesSome(Reversed(primers), processed[i].R2)))

\* C2: the verdict of a pair does not depend on the pairs classified before
\* it: the same pair gets the same verdict at every position of the stream.
C2_VerdictIndependentOfHistory ==
    \A i, j \in 1 .. Len(processed) :
        (/\ Routed(processed[i])
         /\ Routed(processed[j])
         /\ processed[i].R1 = processed[j].R1
         /\ processed[i].R2 = processed[j].R2)
        => processed[i].route = processed[j].route

-----------------------------------------------------------------------------
(* Properties of the merger (SpecMerge) *)

BothShorterThanSeed(recs) ==
    /\ Len(recs.R1.seq) < SEED_LEN
    /\ Len(recs.R2.seq) < SEED_LEN

\* C10: a pair whose reads are both shorter than SEED_LEN is answered with
\* TooShort (2), and no external tool is run for it.
C10_ShortPairTooShortWithoutAligner ==
    (n_merges >= 1 /\ BothShorterThanSeed(mg_recs)) =>
        /\ mg_pc = "idle"
        /\ mg_exc = "none"
        /\ mg_ret = 2
        /\ mg_calls = <<>>

C10_Witness ==
    /\ n_merges = 2
    /\ BothShorterThanSeed(mg_recs)
    /\ Len(mg_recs.R1.seq) = SEED_LEN - 1
    /\ Len(mg_recs.R2.seq) = SEED_LEN - 1
    /\ mg_ret = 2
    /\ curr_merged_seq # <<>>

-----------------------------------------------------------------------------
(* Properties of _merge_by_overlap (SpecOverlap) *)

\* the offset and the overlap lie inside both reads, whose quality strings
\* are as long as their sequences
OvInRange(a) ==
    /\ a.loffset >= 0
    /\ a.overl >= 0
    /\ a.loffset + a.overl <= Len(a.fseq)
    /\ a.overl <= Len(a.rseq)
    /\ Len(a.fqual) = Len(a.fseq)
    /\ Len(a.rqual) = Len(a.rseq)

\* position k of the overlap, 1-based: TRUE if the forward read's quality is
\* not lower than the reverse read's
ForwardWins(a, k) == Ord(a.fqual[a.loffset + k]) >= Ord(a.rqual[k])

ExpectedMergedSeq(a) ==
    SubSeq(a.fseq, 1, a.loffset)
    \o [k \in 1 .. a.overl |->
          IF ForwardWins(a, k) THEN a.fseq[a.loffset + k] ELSE a.rseq[k]]
    \o SubSeq(a.rseq, a.overl + 1, Len(a.rseq))

ExpectedMergedQual(a) ==
    SubSeq(a.fqual, 1, a.loffset)
    \o [k \in 1 .. a.overl |->
          IF ForwardWins(a, k) THEN a.fqual[a.loffset + k] ELSE a.rqual[k]]
    \o SubSeq(a.rqual, a.overl + 1, Len(a.rqual))

\* C11: merge-by-overlap with left offset L and overlap V inside the reads
\* returns forward[0..L), then for each overlap position the base and quality
\* of the forward read if its quality is greater or equal and of the reverse
\* read otherwise, then reverse[V..); the result is L + len(reverse) long and
\* its quality string is as long as its sequence.
C11_MergeByOverlapResult ==
    (ov_out.done /\ OvInRange(ov_in)) =>
        /\ ~ov_out.raised
        /\ ov_out.seq = ExpectedMergedSeq(ov_in)
        /\ ov_out.qual = ExpectedMergedQual(ov_in)
        /\ Len(ov_out.seq) = ov_in.loffset + Len(ov_in.rseq)
        /\ Len(ov_out.qual) = Len(ov_out.seq)

\* a merge with a forward prefix, an overlap position at which the reverse
\* read has the higher quality and another base, and a reverse suffix
C11_Witness ==
    /\ ov_out.done
    /\ OvInRange(ov_in)
    /\ ov_in.loffset = 1
    /\ ov_in.overl = 1
    /\ Len(ov_in.rseq) = 2
    /\ Ord(ov_in.fqual[2]) < Ord(ov_in.rqual[1])
    /\ ov_in.fseq[2] # ov_in.rseq[1]
    /\ ov_out.seq = <<ov_in.fseq[1], ov_in.rseq[1], ov_in.rseq[2]>>
    /\ ov_out.qual = <<ov_in.fqual[1], ov_in.rqual[1], ov_in.rqual[2]>>

\* the same two reads with the roles of forward and reverse exchanged: each
\* read reverse-complemented, each quality string reversed, the same overlap
Swapped(a) ==
    [loffset |-> Len(a.rseq) - a.overl, overl |-> a.overl,
     fseq |-> _rc(a.rseq), fqual |-> Reversed(a.rqual),
     rseq |-> _rc(a.fseq), rqual |-> Reversed(a.fqual)]

MergedSeqOf(a) ==
    _merge_by_overlap(a.loffset, a.overl, a.fseq, a.fqual, a.rseq, a.rqual).seq

\* two reads that overlap by the forward read's tail and the reverse read's
\* head
Overlapping(a) ==
    /\ OvInRange(a)
    /\ a.overl >= 1
    /\ a.loffset + a.overl = Len(a.fseq)

\* an overlap position at which the reads disagree and have equal quality
DisagreeingTie(a) ==
    \E k \in 1 .. a.overl :
        /\ a.fqual[a.loffset + k] = a.rqual[k]
        /\ a.fseq[a.loffset + k] # a.rseq[k]

\* C12 as stated: for every pair of overlapping reads, merging with the roles
\* of forward and reverse exchanged yields the reverse-complement of the
\* original merged sequence, also where the reads disagree at equal quality.
C12_StrandSwapCommutes ==
    (ov_out.done /\ Overlapping(ov_in)) =>
        MergedSeqOf(Swapped(ov_in)) = _rc(ov_out.seq)

\* C12, amended: for every pair of overlapping reads without an overlap
\* position at which the reads disagree and have equal quality, merging with
\* the roles exchanged yields the reverse-complement of the merged sequence.
C12_StrandSwapCommutesWithoutTie ==
    (ov_out.done /\ Overlapping(ov_in) /\ ~DisagreeingTie(ov_in)) =>
        MergedSeqOf(Swapped(ov_in)) = _rc(ov_out.seq)

\* a swap of two reads that disagree in the overlap, where the reverse read
\* has the higher quality, with a forward prefix and a reverse suffix
C12_Witness ==
    /\ ov_out.done
    /\ Overlapping(ov_in)
    /\ ~DisagreeingTie(ov_in)
    /\ ov_in.loffset = 1
    /\ Len(ov_in.rseq) = 2
    /\ ov_in.fseq[2] # ov_in.rseq[1]
    /\ Ord(ov_in.fqual[2]) < Ord(ov_in.rqual[1])
    /\ MergedSeqOf(Swapped(ov_in)) = _rc(ov_out.seq)
    /\ Len(ov_out.seq) = 3

-----------------------------------------------------------------------------
(* Properties of merge_reads' reference-anchored fallback (SpecMerge) *)

\* merge_reads has returned from the fallback that aligns both reads against
\* a reference
ReferenceAnchored ==
    /\ mg_pc = "idle"
    /\ mg_ref.branch \in {"const", "no_const", "not_before", "short_overlap",
                          "long_gap", "gap"}

NoGap == mg_ref.forw_end >= mg_ref.rev_start

RefOverlap == mg_ref.forw_end - mg_ref.rev_start

ForwardStartsFirst == mg_ref.forw_start < mg_ref.rev_start

\* C13: in the reference-anchored fallback, with no gap and an overlap of at
\* most MIN_OVERLAP, merge_reads returns Chimera (1); likewise with no gap
\* and a forward read that does not start before the reverse read.
C13_ShortOverlapOrMisorderIsChimera ==
    (ReferenceAnchored /\ NoGap
        /\ (RefOverlap <= MIN_OVERLAP \/ ~ForwardStartsFirst)) => mg_ret = 1

RefGap == mg_ref.rev_start - mg_ref.forw_end

\* C14: in the reference-anchored fallback, when the forward read ends
\* strictly before the reverse read starts, the gap length
\* g = rev_start - forw_end alone decides: Merged (0) for every
\* g <= MAX_CRED_GAP_LEN and Chimera (1) for every g > MAX_CRED_GAP_LEN.
C14_GapLengthDecides ==
    (ReferenceAnchored /\ ~NoGap) =>
        /\ (RefGap <= MAX_CRED_GAP_LEN) => mg_ret = 0
        /\ (RefGap > MAX_CRED_GAP_LEN) => mg_ret = 1

\* a gap of MAX_CRED_GAP_LEN itself is filled
C14_Witness ==
    /\ ReferenceAnchored
    /\ ~NoGap
    /\ RefGap = MAX_CRED_GAP_LEN
    /\ mg_ret = 0

\* merge_reads has filled a credible gap
GapFilled == ReferenceAnchored /\ mg_ref.branch = "gap"

\* C15: when a credible gap of length g = rev_start - forw_end is filled,
\* the merged sequence is the whole forward read, then exactly g symbols N,
\* then the whole reverse-complemented reverse read; the merged quality is
\* the forward quality, then g symbols '!', then the reversed reverse
\* quality; so the reverse read's first base sits at merged position
\* rev_start - forw_start.
C15_GapFilledWithGapLengthNs ==
    GapFilled =>
        /\ curr_merged_seq =
              mg_local.fseq \o Repeat("N", RefGap) \o mg_local.rseq
        /\ curr_merged_qual =
              mg_local.fqual \o Repeat("!", RefGap) \o mg_local.rqual
        /\ SubSeq(curr_merged_seq,
                  mg_ref.rev_start - mg_ref.forw_start + 1,
                  Len(curr_merged_seq)) = mg_local.rseq

\* merge_reads has returned from the marker check of
\* _search_for_constant_region
MarkerChecked ==
    /\ mg_pc = "idle"
    /\ mg_ref.branch \in {"const", "no_const"}

\* the report of the marker's alignment: the latest run of the call
PmerReport == mg_runs[Len(mg_runs)].report

\* the sequence checked for the marker: the overlap merge of the call's reads
OwnOverlapMerge ==
    _merge_by_overlap(mg_local.loffset, mg_local.overl, mg_local.fseq,
                      mg_local.fqual, mg_local.rseq, mg_local.rqual)

\* the marker covers more than MIN_CONST_COV of the constant region with an
\* identity above MIN_CONST_IDENT, and lies in the middle of the sequence
MarkerCheckPasses ==
    /\ PmerReport.LENGTH * 100 > MIN_CONST_COV * constV3V4_len
    /\ PmerReport.PIDENT > MIN_CONST_IDENT * 100
    /\ PmerReport.SSTART > MAX_CONST_MID_OFFS
    /\ PmerReport.SEND > Len(OwnOverlapMerge.seq) - MAX_CONST_MID_OFFS

\* C16: in the reference-anchored fallback with no gap, an overlap above
\* MIN_OVERLAP and the forward read starting first, merge_reads returns
\* Merged (0) if and only if the constant-marker check on the overlap-merged
\* sequence passes, and Chimera (1) otherwise.  (A call that raises on this
\* path returns nothing: C18 and C30 are about those.)
C16_MergedIffMarkerFound ==
    /\ MarkerChecked =>
          /\ NoGap /\ RefOverlap > MIN_OVERLAP /\ ForwardStartsFirst
          /\ IF MarkerCheckPasses THEN mg_ret = 0 ELSE mg_ret = 1
    /\ (ReferenceAnchored /\ NoGap /\ RefOverlap > MIN_OVERLAP
            /\ ForwardStartsFirst /\ mg_ret = 0) =>
          (MarkerChecked /\ MarkerCheckPasses)

\* a pair accepted after a passing marker check, the last of six tool runs
C16_Witness ==
    /\ MarkerChecked
    /\ MarkerCheckPasses
    /\ mg_ret = 0
    /\ mg_calls = <<"fasta36", "blastn", "blastdbcmd", "fasta36", "cat",
                   "fasta36">>

\* what the latest call builds from its own reads on the return it took
OwnMerged ==
    IF mg_ref.branch = "gap"
      THEN [seq  |-> mg_local.fseq \o Repeat("N", RefGap - 1) \o mg_local.rseq,
            qual |-> mg_local.fqual \o Repeat("!", RefGap - 1)
                        \o mg_local.rqual]
      ELSE [seq |-> OwnOverlapMerge.seq, qual |-> OwnOverlapMerge.qual]

\* C17: whenever a call of merge_reads returns Merged (0), the module's
\* current merged sequence and quality are the ones built from that call's
\* own forward and reverse reads, on every path that returns Merged; the
\* result of an earlier pair is never delivered for a later pair.
C17_MergedResultIsOwn ==
    (mg_pc = "idle" /\ mg_ret = 0) =>
        /\ curr_merged_seq = OwnMerged.seq
        /\ curr_merged_qual = OwnMerged.qual

-----------------------------------------------------------------------------
(* Properties of merge_reads' use of the external tools (SpecMerge) *)

\* a run of an aligner in the latest call failed: it exited with a non-zero
\* status, or the report read after it was empty or left over from an
\* earlier run (mg_runs[i] is the run of mg_calls[i])
RunFailed ==
    \E i \in 1 .. Len(mg_runs) :
        /\ mg_calls[i] \in {"fasta36", "blastn"}
        /\ mg_runs[i].exit # 0 \/ mg_runs[i].empty \/ mg_runs[i].stale

\* C18: if a run of the external aligner fails (non-zero exit status or an
\* empty report), merge_reads never returns Merged (0), Chimera (1) or
\* TooShort (2) computed from the failed run or from a report left over from
\* an earlier run.
C18_FailedRunYieldsNoVerdict ==
    (mg_pc = "idle" /\ RunFailed) => mg_ret \notin {0, 1, 2}

-----------------------------------------------------------------------------
(* Properties of the classifier's streams (Spec) *)

Streams == {"mR1", "mR2", "trR1", "trR2"}

\* C19: a read record whose sequence and quality string differ in length is
\* rejected before it is classified, trimmed or written; no such record ever
\* reaches the kept or trash stream.
C19_MismatchedRecordNeverWritten ==
    \A f \in Streams :
        \A i \in 1 .. Len(result_files[f]) : LenOK(result_files[f][i])

\* the pairs the loop has finished, in input order, and those of them that
\* went to the kept and to the trash streams
Done == SelectSeq(processed, Routed)

IsKept(e) == e.route = "kept"

IsTrash(e) == e.route = "trash"

KeptPairs == SelectSeq(processed, IsKept)

TrashPairs == SelectSeq(processed, IsTrash)

IsSuffix(s, r) == \E n \in 0 .. Len(r) : s = SubSeq(r, n + 1, Len(r))

\* the written record is the input record, possibly with its head cut off
RecordOf(out, in) ==
    /\ IsSuffix(out.seq, in.seq)
    /\ IsSuffix(out.qual_str, in.qual_str)

\* the two files of a class hold the reads of the pairs of that class, one
\* record per pair and in input order
StreamsHold(f1, f2, pairs) ==
    /\ Len(result_files[f1]) = Len(pairs)
    /\ Len(result_files[f2]) = Len(pairs)
    /\ \A i \in 1 .. Len(pairs) :
          /\ RecordOf(result_files[f1][i], pairs[i].R1)
          /\ RecordOf(result_files[f2][i], pairs[i].R2)

\* C20: after k pairs have been processed, match + trash = k, the kept
\* forward and reverse files hold match records each, the trash forward and
\* reverse files hold trash records each, every pair is in exactly one of
\* the two classes with both its reads, and the records of every file are
\* in input order.
C20_CountersAndStreamsAgree ==
    /\ reads_processed = Len(Done)
    /\ stats.match + stats.trash = reads_processed
    /\ Len(KeptPairs) = stats.match
    /\ Len(TrashPairs) = stats.trash
    /\ Len(KeptPairs) + Len(TrashPairs) = Len(Done)
    /\ StreamsHold("mR1", "mR2", KeptPairs)
    /\ StreamsHold("trR1", "trR2", TrashPairs)

\* three pairs processed with trimming on: two different pairs kept, the
\* first of them with its forward read trimmed, and one pair in the trash
C20_Witness ==
    /\ cutoff
    /\ reads_processed = 3
    /\ stats.match = 2
    /\ stats.trash = 1
    /\ result_files.mR1[1] # result_files.mR1[2]
    /\ Len(result_files.mR1[1].seq) < Len(KeptPairs[1].R1.seq)

-----------------------------------------------------------------------------
(* Properties of the quality histogram (SpecQual) *)

\* the generator was run and has returned
PacketsComplete ==
    \/ q_pc \in {"starmap", "reduce"}
    \/ q_pc = "done" /\ par_exc \in {"none", "IndexError"}

RECURSIVE Concat(_)
Concat(packets) ==
    IF packets = <<>> THEN <<>>
    ELSE Head(packets) \o Concat(Tail(packets))

\* the least c with c * b >= a
CeilDiv(a, b) == CHOOSE c \in 0 .. a : c * b >= a /\ (c = 0 \/ (c - 1) * b < a)

\* C21: for every number N of read pairs and every number n of processes,
\* fastq_read_packets yields n packets at most; they are contiguous pieces of
\* the input in input order and their concatenation is the input (no pair
\* lost, none twice); every packet but the last holds ceil(N / n) pairs and
\* the last holds no more.
C21_PacketsPartitionTheInput ==
    PacketsComplete =>
        LET np == Len(pk_yielded)
            size == CeilDiv(Len(q_reads), n_thr)
        IN  /\ np <= n_thr
            /\ Concat(pk_yielded) = q_reads
            /\ \A k \in 1 .. np :
                  IF k < np THEN Len(pk_yielded[k]) = size
                  ELSE Len(pk_yielded[k]) <= size

\* three pairs for two processes: a packet of two pairs and one of one
C21_Witness ==
    /\ PacketsComplete
    /\ Len(q_reads) = 3
    /\ n_thr = 2
    /\ Len(pk_yielded) = 2
    /\ Len(pk_yielded[1]) = 2
    /\ Len(pk_yielded[2]) = 1
    /\ pk_yielded[1][2] # pk_yielded[2][1]

\* the results of single_qual_calcer on the three contiguous pieces of the
\* input cut at a and b
ResultsOfPieces(a, b) ==
    << single_qual_calcer(SubSeq(q_reads, 1, a)).Y,
       single_qual_calcer(SubSeq(q_reads, a + 1, b)).Y,
       single_qual_calcer(SubSeq(q_reads, b + 1, Len(q_reads))).Y >>

\* C22: over the same input, what parallel_qual returns for k >= 2 processes
\* is what progress_counter with add_data_for_qual_plot leaves in Y (and one
\* raises when the other does), however the pairs are split into packets and
\* in whatever order the results of the packets are added.
C22_ParallelEqualsSingle ==
    q_pc = "done" =>
        /\ sq_exc = par_exc
        /\ sq_exc = "none" =>
              /\ par_sum = sq_Y
              /\ \A a, b \in 0 .. Len(q_reads) :
                    a <= b =>
                        LET Ys == ResultsOfPieces(a, b)
                        IN  \A f \in OrdersOf(3) :
                                reduce_arr_sum([k \in 1 .. 3 |-> Ys[f[k]]])
                                    = sq_Y

-----------------------------------------------------------------------------
(* Properties of merge_reads' reading of the direct alignment (SpecMerge) *)

\* the latest call has read the report of the reads' alignment against one
\* another
DirectAligned ==
    /\ Len(mg_runs) >= 1
    /\ mg_runs[1].report.ok
    /\ Len(mg_local.fseq) > 0
    /\ Len(mg_local.rseq) > 0

DirectReport == mg_runs[1].report

\* query start < subject start, or query_end / len(forward) <
\* subject_end / len(reverse)
TooShortCondition ==
    \/ DirectReport.QSTART < DirectReport.SSTART
    \/ DirectReport.QEND * Len(mg_local.rseq)
            < DirectReport.SEND * Len(mg_local.fseq)

\* len(forward) - query_end > MAX_ALIGN_OFFSET, or subject start >
\* MAX_ALIGN_OFFSET
OffCentreCondition ==
    \/ Len(mg_local.fseq) - DirectReport.QEND > MAX_ALIGN_OFFSET
    \/ DirectReport.SSTART > MAX_ALIGN_OFFSET

\* C23: when the direct alignment is both too short and off-centre, the
\* too-short check comes first: merge_reads returns 2 (TooShort) and the
\* reference-anchored fallback (blastn) is not entered.
C23_TooShortBeforeOffCentre ==
    (DirectAligned /\ TooShortCondition /\ OffCentreCondition) =>
        /\ mg_pc = "idle"
        /\ mg_ret = 2
        /\ mg_calls = <<"fasta36">>

-----------------------------------------------------------------------------
(* Properties of merge_reads' seed step (SpecMerge) *)

\* merge_reads has been called and is past its seed step
SeedStepDone == n_merges >= 1

BothHaveSeedLen ==
    /\ Len(mg_local.fseq) >= SEED_LEN
    /\ Len(mg_local.rseq) >= SEED_LEN

\* no position of the reverse read at which the whole seed can be laid is
\* accepted
NoShiftAccepted ==
    \A shift \in seed_shifts_in_range(seed_of(mg_local.fseq), mg_local.rseq) :
        ~seed_accepts(seed_of(mg_local.fseq), mg_local.rseq, shift)

\* C24: for a pair whose reads both have SEED_LEN bases or more, a seed
\* alignment that accepts no shift is followed by the request of a direct
\* alignment of the forward read against the reverse read, before any
\* outcome; the seed step itself never ends such a pair with TooShort.
C24_SeedFailureAsksAligner ==
    (SeedStepDone /\ BothHaveSeedLen /\ NoShiftAccepted) =>
        /\ Len(mg_calls) >= 1
        /\ mg_calls[1] = "fasta36"
        /\ mg_ref.branch # "seed_too_short"

\* the last SEED_LEN bases of the forward read
LastSeedLenBases(fseq) == SubSeq(fseq, Len(fseq) - SEED_LEN + 1, Len(fseq))

\* the shifts of 0 .. MAX_SHIFT at which more than MIN_PIDENT of the
\* positions of seed and reverse[shift .. shift + SEED_LEN - 1] are equal
ShiftsExceedingPident(seed, rseq) ==
    {shift \in 0 .. RM_MAX_SHIFT :
        /\ Len(rseq) >= shift + SEED_LEN
        /\ Cardinality({pos \in 1 .. SEED_LEN : seed[pos] = rseq[shift + pos]})
                * 100 > MIN_PIDENT * SEED_LEN}

\* the shift the seed step of the latest call returned
ReturnedShift == mg_local.overl - SEED_LEN

\* C25: the seed is the last SEED_LEN bases of the forward read; it is
\* compared with reverse[shift .. shift + SEED_LEN - 1] for shift = 0, 1, ...
\* up to MAX_SHIFT, and the seed alignment returns the smallest shift at
\* which the fraction of equal positions exceeds MIN_PIDENT.
C25_SeedIsLastBasesSmallestShift ==
    (SeedStepDone /\ BothHaveSeedLen) =>
        LET shifts == ShiftsExceedingPident(LastSeedLenBases(mg_local.fseq),
                                            mg_local.rseq)
        IN  IF shifts # {}
              THEN mg_ref.branch = "seed" /\ ReturnedShift = SetMin(shifts)
              ELSE mg_ref.branch # "seed"

-----------------------------------------------------------------------------
(* Properties of the scanner's shifts (SpecScan) *)

\* some trial of the reported primer at a shift below the reported one
\* succeeds
EarlierTrialSucceeds ==
    \E s \in 0 .. (scan_out.shift - 1) :
        \/ trial_1(primers[scan_out.primer], scan_in.seq, s).status = "hit"
        \/ s >= 1 /\ trial_2(primers[scan_out.primer], scan_in.seq, s).status
                        = "hit"

\* C26: every trial of find_primer, in either direction, uses a shift s with
\* 0 <= s <= MAX_SHIFT; the trials are evaluated in non-decreasing shift
\* order and the first that succeeds is returned: no match is reported from
\* an alignment shifted by more than MAX_SHIFT positions, nor while a trial
\* at a smaller shift succeeds.
C26_MatchWithinMaxShift ==
    (Scanned /\ scan_out.verdict = "found") =>
        /\ 0 <= scan_out.shift
        /\ scan_out.shift <= MAX_SHIFT
        /\ ~EarlierTrialSucceeds

-----------------------------------------------------------------------------
(* Properties of the constant-marker check's thresholds (SpecMerge) *)

\* the marker's aligned length is MIN_CONST_COV of the marker's length or
\* more, its identity is MIN_CONST_IDENT or more, and its span lies where
\* in_the_midl and in_the_midr want it
MarkerAtLeastThresholds ==
    /\ PmerReport.LENGTH * 100 >= MIN_CONST_COV * constV3V4_len
    /\ PmerReport.PIDENT >= MIN_CONST_IDENT * 100
    /\ PmerReport.SSTART > MAX_CONST_MID_OFFS
    /\ PmerReport.SEND > Len(OwnOverlapMerge.seq) - MAX_CONST_MID_OFFS

\* C27: the constant-marker check passes exactly when the marker's aligned
\* length is at least MIN_CONST_COV of the marker's length (equality passes),
\* its percent identity is at least MIN_CONST_IDENT (equality passes) and its
\* span is placed as required; it fails in every other case.
C27_MarkerEqualityPasses ==
    MarkerChecked => (mg_ret = 0 <=> MarkerAtLeastThresholds)

-----------------------------------------------------------------------------
(* Properties of merge_reads' branches (SpecMerge) *)

\* reports of the reads' alignment against one another, with coordinates on
\* both sides of every comparison of far_branch, for reads of 20 and 60
\* bases against reads of 17 and 135
DirectCases ==
    {[report |-> Report(qs, qe, ss, se, qe - qs + 1, 10000),
      fseq_len |-> fl, rseq_len |-> rl] :
        qs \in {1, 5, 45, 50}, qe \in {10, 30, 60}, ss \in {1, 5, 40, 41, 100},
        se \in {11, 34, 56, 109}, fl \in {20, 60}, rl \in {17, 135}}

\* reference coordinates with every overlap and gap from -300 to 300
ReferenceCases ==
    {[forw_start |-> fs, forw_end |-> fs + fl, rev_start |-> rs] :
        fs \in {0, 100, 200}, fl \in {20, 60}, rs \in 0 .. 300}

DirectBranches ==
    {far_branch(c.report, c.fseq_len, c.rseq_len) : c \in DirectCases}

ReferenceBranches ==
    {ref_branch(c.forw_start, c.forw_end, c.rev_start) : c \in ReferenceCases}

\* what merge_reads returns on a branch; the marker check of 'const_check'
\* gives 0 or 1, and 'blast' goes on to the reference coordinates
BranchReturns(b) ==
    CASE b \in {"overlap", "short_overlap", "gap"} -> {0}
      [] b = "const_check" -> {0, 1}
      [] b \in {"not_before", "long_gap"} -> {1}
      [] b = "too_short" -> {2}
      [] b = "unforeseen" -> {3}
      [] OTHER -> {}

PossibleReturns ==
    UNION {BranchReturns(b) : b \in DirectBranches \cup ReferenceBranches}

\* C28: every branch of merge_reads can be reached: for each of Merged (0),
\* Chimera (1), TooShort (2) and Fatal (3) there are reads and reports for
\* which merge_reads returns it; some combination of coordinates matches
\* none of the foreseen cases and returns Fatal through the unforeseen-case
\* handler.  (Stated of the reads and reports merge_reads can be given,
\* before any call.)
C28_EveryOutcomeReachable ==
    n_merges = 0 =>
        /\ {0, 1, 2, 3} \subseteq PossibleReturns
        /\ "unforeseen" \in DirectBranches \cup ReferenceBranches

\* C28 as it holds: Merged, Chimera and TooShort are returned for some reads
\* and reports, while the foreseen cases leave no combination of coordinates
\* over: the unforeseen-case handler is never entered and Fatal is never
\* returned.
C28_EveryOutcomeButFatal ==
    /\ mg_ret \in {-1, 0, 1, 2}
    /\ mg_ref.branch # "unforeseen"
    /\ n_merges = 0 =>
          /\ PossibleReturns = {0, 1, 2}
          /\ "unforeseen" \notin DirectBranches \cup ReferenceBranches

\* an overlap of exactly MIN_OVERLAP on the reference: the last comparison
\* before the unforeseen case of the reference-anchored branch
C28_Witness ==
    /\ mg_pc = "idle"
    /\ mg_ref.branch = "short_overlap"
    /\ mg_ref.forw_end - mg_ref.rev_start = MIN_OVERLAP
    /\ mg_ret = 0

-----------------------------------------------------------------------------
(* Properties of the shared progress counter (SpecWorkers) *)

RECURSIVE SumOf(_, _)
SumOf(f, k) == IF k = 0 THEN 0 ELSE f[k] + SumOf(f, k - 1)

IncrementsPerformed == SumOf(w_incs, Len(w_incs))

PairsHandled == SumOf(w_done, Len(w_done))

\* between the entry into 'with count_lock' and its end
InCountSection(w) == w_pc[w] \in {"load", "store", "end_count"}

\* inside 'with print_lock'
InPrintSection(w) == w_pc[w] = "printn"

AllWorkersDone == \A w \in Workers : w_pc[w] = "done"

\* C29: with any number of processes running single_qual_calcer at once,
\* no two of them are inside 'with count_lock' together and no two are inside
\* 'with print_lock' together; once all of them have returned the counter is
\* the sum of all the increments made, and at no time does it exceed the
\* number of read pairs handled so far.
C29_NoIncrementLost ==
    /\ \A a, b \in Workers :
          a # b => /\ ~(InCountSection(a) /\ InCountSection(b))
                   /\ ~(InPrintSection(a) /\ InPrintSection(b))
    /\ \A w \in Workers : InCountSection(w) => count_lock = w
    /\ \A w \in Workers : InPrintSection(w) => print_lock = w
    /\ AllWorkersDone => counter = delay * IncrementsPerformed
    /\ counter <= PairsHandled

\* three processes have returned, each after two increments
C29_Witness ==
    /\ Len(w_pc) = 3
    /\ AllWorkersDone
    /\ \A w \in Workers : w_incs[w] = 2
    /\ counter = 6 * delay

-----------------------------------------------------------------------------
(* Properties of merge_reads' calls of _merge_by_overlap (SpecMerge) *)

\* merge_reads has called _merge_by_overlap with mg_local's loffset and overl:
\* after the seed alignment, on a normal overlap, or with the reference's
\* coordinates
MergeByOverlapCalled ==
    mg_ref.branch \in {"seed", "overlap", "short_overlap", "const", "no_const"}

\* C30: every call of _merge_by_overlap made by merge_reads has
\* 0 <= loffset, 0 <= overl, loffset + overl <= len(forward) and
\* overl <= len(reverse), whatever the reads' lengths, the accepted shift
\* and the alignment's coordinates.
C30_CallArgumentsInRange ==
    MergeByOverlapCalled =>
        /\ 0 <= mg_local.loffset
        /\ 0 <= mg_local.overl
        /\ mg_local.loffset + mg_local.overl <= Len(mg_local.fseq)
        /\ mg_local.overl <= Len(mg_local.rseq)

====
